---- MODULE Spec2Model ----
(***************************************************************************)
(* gocstat: periodic discovery of Linux containers under BasePath, a       *)
(* mutex-guarded store of per-container statistics, and ReadStats, which   *)
(* re-reads the bound cgroup files.                                        *)
(*                                                                         *)
(* Two builds of the package are modelled side by side, because the        *)
(* repository holds both and they differ in the walker's error handling:   *)
(*   "current"  the latest gocstat.go + blkio.go (walkFn swallows errors), *)
(*   "gocstat"  src/gocstat.go (InitCgroups/ReadCgroups; walkFn returns    *)
(*              the error it is handed; memory and CPU only).              *)
(***************************************************************************)
EXTENDS Integers, Sequences, FiniteSets, TLC

(***************************************************************************)
(* Bounds of the model.                                                    *)
(***************************************************************************)
\* number of changes the environment makes in one run: to the cgroup tree,
\* or the wall clock advancing (the kernel counters advance with it)
MaxEnvEvents == 1
\* lines of a CPU or memory content handed to a parser on its own
MaxLines == 3
\* device blocks of a block-I/O content handed to the parser on its own
MaxGroups == 2

\* container IDs that can appear under BasePath
Ids == {"c1", "c2"}
\* threads of the application that call ReadStats
Callers == {"u1", "u2"}
Builds == {"current", "gocstat"}

(***************************************************************************)
(* Names and zero values of the program.                                   *)
(***************************************************************************)
memFile == "memory.stat"
cPUFile == "cpuacct.stat"
blkIOIOPSFile == "blkio.throttle.io_serviced"
blkIOBytesFile == "blkio.throttle.io_service_bytes"

\* in lexical order, the order in which filepath.Walk visits a directory
FileNames == <<blkIOBytesFile, blkIOIOPSFile, cPUFile, memFile>>
FileNameSet == {FileNames[i] : i \in 1..Len(FileNames)}

\* the empty string of a path field; a bound path is <<id, file name>>
NoPath == <<>>
\* the zero time.Time
ZeroTime == 0
NoErr == "nil"
NoChan == "nil"
NoHolder == 0
Free == "unlocked"

ZeroCPU == [User |-> 0, System |-> 0, path |-> NoPath, Timestamp |-> ZeroTime]
ZeroMem == [RSS |-> 0, Cache |-> 0, path |-> NoPath, Timestamp |-> ZeroTime]
ZeroBlkServiced == [path |-> NoPath, Timestamp |-> ZeroTime, Devices |-> <<>>]
ZeroBlkDevice ==
  [Major |-> 0, Minor |-> 0, Read |-> 0, Write |-> 0, Sync |-> 0, Async |-> 0]
\* &Cstats{}
ZeroCstats ==
  [Memory |-> ZeroMem, CPU |-> ZeroCPU,
   BlkIO |-> [Bytes |-> ZeroBlkServiced, IOPS |-> ZeroBlkServiced]]

(***************************************************************************)
(* Text.  A file's content is the sequence of its lines as strings.Split   *)
(* (content, "\n") yields them, each line the sequence of its              *)
(* whitespace-separated fields as strings.Fields yields them.              *)
(***************************************************************************)
NumStr == <<"1", "2", "3", "4", "5", "6", "7", "8", "9">>
Numerals ==
  {<<NumStr[n], n>> : n \in 1..Len(NumStr)}
    \cup {<<"0", 0>>, <<"100", 100>>, <<"200", 200>>}

\* strconv.ParseUint(s, 10, 64) with the error dropped: 0 on a syntax error
ParseUint(s) ==
  IF \E p \in Numerals : p[1] = s
    THEN (CHOOSE p \in Numerals : p[1] = s)[2]
    ELSE 0

\* strings.Split(deviceStr, ":")
DeviceStrs == {<<"8:0", <<"8", "0">>>>, <<"8:1", <<"8", "1">>>>}
SplitColon(s) ==
  IF \E p \in DeviceStrs : p[1] = s
    THEN (CHOOSE p \in DeviceStrs : p[1] = s)[2]
    ELSE <<s>>

\* mutant of CPUStat_create: the counters are found by their labels
CPUStat_create_ByLabel(c, lines, t) ==
  IF Len(lines) < 2 THEN c
  ELSE [c EXCEPT
          !.User = IF Len(lines[1]) < 2 \/ lines[1][1] # "user"
                     THEN @ ELSE ParseUint(lines[1][2]),
          !.System = IF Len(lines[2]) < 2 \/ lines[2][1] # "system"
                       THEN @ ELSE ParseUint(lines[2][2]),
          !.Timestamp = t]

\* (c *CPUStat) create; the gocstat build's createCPUStat stamps no time
CPUStat_create(c, lines, t) ==
  IF Len(lines) < 2 THEN c
  ELSE [c EXCEPT
          !.User = IF Len(lines[1]) < 2 THEN @ ELSE ParseUint(lines[1][2]),
          !.System = IF Len(lines[2]) < 2 THEN @ ELSE ParseUint(lines[2][2]),
          !.Timestamp = t]

\* mutant of MemStat_create: the time is stamped before the length is tested
MemStat_create_StampFirst(m, lines, t) ==
  IF Len(lines) < 2 THEN [m EXCEPT !.Timestamp = t]
  ELSE [m EXCEPT
          !.Cache = IF Len(lines[1]) < 2 THEN @ ELSE ParseUint(lines[1][2]),
          !.RSS = IF Len(lines[2]) < 2 THEN @ ELSE ParseUint(lines[2][2]),
          !.Timestamp = t]

\* (m *MemStat) create
MemStat_create(m, lines, t) ==
  IF Len(lines) < 2 THEN m
  ELSE [m EXCEPT
          !.Cache = IF Len(lines[1]) < 2 THEN @ ELSE ParseUint(lines[1][2]),
          !.RSS = IF Len(lines[2]) < 2 THEN @ ELSE ParseUint(lines[2][2]),
          !.Timestamp = t]

\* mutant of BlkDevice_create: a row whose identifier has no colon is skipped
RECURSIVE BlkDevice_create_SkipNoColon(_, _)
BlkDevice_create_SkipNoColon(b, lines) ==
  IF lines = <<>> THEN b
  ELSE
    LET fields == Head(lines)
        device == SplitColon(fields[1])
        b1 == [b EXCEPT !.Major = ParseUint(device[1]),
                        !.Minor = ParseUint(device[2])]
        unit == ParseUint(fields[3])
        b2 == CASE fields[2] = "Read" -> [b1 EXCEPT !.Read = unit]
                [] fields[2] = "Write" -> [b1 EXCEPT !.Write = unit]
                [] fields[2] = "Sync" -> [b1 EXCEPT !.Sync = unit]
                [] fields[2] = "Async" -> [b1 EXCEPT !.Async = unit]
                [] OTHER -> b1
    IN IF Len(fields) # 3 \/ Len(device) <= 1
         THEN BlkDevice_create_SkipNoColon(b, Tail(lines))
         ELSE BlkDevice_create_SkipNoColon(b2, Tail(lines))

\* (b *BlkDevice) create: every three-field line sets the device numbers
\* (when the identifier has a colon) and the counter its label names
RECURSIVE BlkDevice_create(_, _)
BlkDevice_create(b, lines) ==
  IF lines = <<>> THEN b
  ELSE
    LET fields == Head(lines)
        device == SplitColon(fields[1])
        b1 == IF Len(device) > 1
                THEN [b EXCEPT !.Major = ParseUint(device[1]),
                               !.Minor = ParseUint(device[2])]
                ELSE b
        unit == ParseUint(fields[3])
        b2 == CASE fields[2] = "Read" -> [b1 EXCEPT !.Read = unit]
                [] fields[2] = "Write" -> [b1 EXCEPT !.Write = unit]
                [] fields[2] = "Sync" -> [b1 EXCEPT !.Sync = unit]
                [] fields[2] = "Async" -> [b1 EXCEPT !.Async = unit]
                [] OTHER -> b1
    IN IF Len(fields) # 3
         THEN BlkDevice_create(b, Tail(lines))
         ELSE BlkDevice_create(b2, Tail(lines))

\* the loop of (b *BlkServiced) create from line i on (i counts from 0)
RECURSIVE BlkLoop(_, _, _, _, _)
BlkLoop(lines, i, lastDeviceStr, tmpContent, devices) ==
  IF i >= Len(lines)
    THEN IF Len(tmpContent) # 0
           THEN Append(devices, BlkDevice_create(ZeroBlkDevice, tmpContent))
           ELSE devices
  ELSE
    LET fields == lines[i + 1]
        flush == fields[1] # lastDeviceStr /\ i > 0
    IN IF Len(fields) # 3
         THEN BlkLoop(lines, i + 1, lastDeviceStr, tmpContent, devices)
         ELSE BlkLoop(lines, i + 1, fields[1],
                      Append(IF flush THEN <<>> ELSE tmpContent, fields),
                      IF flush
                        THEN Append(devices,
                                    BlkDevice_create(ZeroBlkDevice, tmpContent))
                        ELSE devices)

\* mutant of BlkServiced_create: all rows go to one device record
BlkServiced_create_OneDevice(b, lines, t) ==
  LET rows == SelectSeq(lines, LAMBDA l : Len(l) = 3)
  IN [b EXCEPT !.Timestamp = t,
               !.Devices = IF rows = <<>> THEN <<>>
                           ELSE <<BlkDevice_create(ZeroBlkDevice, rows)>>]

\* mutant of BlkServiced_create: the records are appended to those of the
\* call before
BlkServiced_create_Append(b, lines, t) ==
  [b EXCEPT !.Timestamp = t,
            !.Devices = @ \o BlkLoop(lines, 0, "", <<>>, <<>>)]

\* (b *BlkServiced) create
BlkServiced_create(b, lines, t) ==
  [b EXCEPT !.Timestamp = t, !.Devices = BlkLoop(lines, 0, "", <<>>, <<>>)]

(***************************************************************************)
(* The cgroup tree under BasePath: the environment of the program.  One    *)
(* directory per container, docker-<id>.scope, holding its metric files.   *)
(***************************************************************************)
IdOrder == <<"c1", "c2">>
IdNum(id) == CHOOSE n \in 1..Len(IdOrder) : IdOrder[n] = id
\* the container whose files the environment removes or makes unreadable one
\* by one (either container can stop as a whole)
FaultIds == {"c2"}
\* the sets of metric files a container directory is created with
FileSets == {FileNameSet, {}}
BasePath == <<"BasePath">>
ENOENT == "no such file or directory"
EACCES == "permission denied"

VARIABLES
  build,        \* which build of the package runs
  fsRoot,       \* "ok" or "missing": whether BasePath can be traversed
  fsDirs,       \* the container directories that exist under BasePath
  fsFiles,      \* per container and file name: "absent", "ok", "denied"
  now,          \* wall clock
  fsEvents,     \* changes the environment has made so far
  re,           \* package variable re: "nil" or "compiled"
  initRet,      \* what the last call of Init returned ("none" before)
  statsHolder,  \* package variable statsHolder: NoHolder or a holder
  holders,      \* the holders allocated so far: mutex and containers map
  lastPass,     \* per holder, its map as the last finished pass left it
  tasks,        \* the goroutines started by Init
  callers,      \* the threads calling ReadStats
  errCh,        \* the error channel made by the application
  call          \* a parser or walkFn called on its own: arguments and result

vars == <<build, fsRoot, fsDirs, fsFiles, now, fsEvents, re, initRet,
          statsHolder, holders, lastPass, tasks, callers, errCh, call>>
fsVars == <<fsRoot, fsDirs, fsFiles, now, fsEvents>>

\* the cumulative counter k of a container's file, as text, at instant t
Val(id, k, t) == NumStr[((k + 2 * IdNum(id) + 3 * t) % Len(NumStr)) + 1]

\* what the kernel shows in a metric file at instant t
Content(id, f, t) ==
  CASE f = memFile ->
         << <<"cache", Val(id, 1, t)>>, <<"rss", Val(id, 2, t)>>,
            <<"mapped_file", Val(id, 3, t)>>, <<>> >>
    [] f = cPUFile ->
         << <<"user", Val(id, 3, t)>>, <<"system", Val(id, 4, t)>>, <<>> >>
    [] f = blkIOBytesFile ->
         << <<"8:0", "Read", Val(id, 5, t)>>, <<"8:0", "Write", Val(id, 6, t)>>,
            <<"8:0", "Sync", Val(id, 7, t)>>, <<"8:0", "Async", Val(id, 8, t)>>,
            <<"8:0", "Total", Val(id, 0, t)>>, <<"Total", Val(id, 0, t)>>, <<>> >>
    [] f = blkIOIOPSFile ->
         << <<"8:0", "Read", Val(id, 1, t)>>, <<"8:0", "Write", Val(id, 2, t)>>,
            <<"8:0", "Sync", Val(id, 3, t)>>, <<"8:0", "Async", Val(id, 4, t)>>,
            <<"8:0", "Total", Val(id, 5, t)>>, <<"Total", Val(id, 5, t)>>, <<>> >>

\* "absent", "ok" or "denied": nothing exists under a missing BasePath
FileStatus(path) ==
  IF fsRoot = "ok" /\ path[1] \in fsDirs THEN fsFiles[path[1]][path[2]]
  ELSE "absent"

\* ioutil.ReadFile through readFile(path)
readFile(path) ==
  CASE FileStatus(path) = "ok" ->
         [b |-> Content(path[1], path[2], now), err |-> NoErr]
    [] FileStatus(path) = "denied" -> [b |-> <<>>, err |-> EACCES]
    [] OTHER -> [b |-> <<>>, err |-> ENOENT]

\* os.IsNotExist
IsNotExist(err) == err = ENOENT

\* the container directories (resp. a directory's files) in lexical order
DirNames == SelectSeq(IdOrder, LAMBDA id : id \in fsDirs)
DirFiles(id) == SelectSeq(FileNames, LAMBDA f : fsFiles[id][f] # "absent")

\* os.Lstat succeeds
DirExists(id) == fsRoot = "ok" /\ id \in fsDirs
FileExists(path) == FileStatus(path) # "absent"

(***************************************************************************)
(* The store.                                                              *)
(***************************************************************************)
\* mutant of Delete: the entry stays, without its paths
Delete_Unbind(m, id) ==
  [m EXCEPT ![id] = [@ EXCEPT !.Memory.path = NoPath, !.CPU.path = NoPath,
                              !.BlkIO.Bytes.path = NoPath,
                              !.BlkIO.IOPS.path = NoPath]]

\* delete(m, id)
Delete(m, id) == [i \in DOMAIN m \ {id} |-> m[i]]
NoContainers == [i \in {} |-> ZeroCstats]

\* re.FindStringSubmatch(filePath): the whole match and the captured ID; no
\* match for BasePath itself
FindStringSubmatch(filePath) ==
  IF filePath = BasePath THEN <<>> ELSE <<filePath, filePath[1]>>

\* mutant of BindPath: the case of cPUFile is missing
BindPath_NoCPU(cs, baseName, filePath, b) ==
  CASE baseName = memFile -> [cs EXCEPT !.Memory.path = filePath]
    [] baseName = blkIOIOPSFile /\ b = "current" ->
         [cs EXCEPT !.BlkIO.Bytes.path = filePath]
    [] baseName = blkIOBytesFile /\ b = "current" ->
         [cs EXCEPT !.BlkIO.IOPS.path = filePath]
    [] OTHER -> cs

\* the switch on the base name in walkFn
BindPath(cs, baseName, filePath, b) ==
  IF b = "current"
    THEN CASE baseName = memFile -> [cs EXCEPT !.Memory.path = filePath]
           [] baseName = cPUFile -> [cs EXCEPT !.CPU.path = filePath]
           [] baseName = blkIOIOPSFile -> [cs EXCEPT !.BlkIO.Bytes.path = filePath]
           [] baseName = blkIOBytesFile -> [cs EXCEPT !.BlkIO.IOPS.path = filePath]
           [] OTHER -> cs
    ELSE CASE baseName = memFile -> [cs EXCEPT !.Memory.path = filePath]
           [] baseName = cPUFile -> [cs EXCEPT !.CPU.path = filePath]
           [] OTHER -> cs

\* what walkFn returns when filepath.Walk hands it an error
WalkFnErr(b, err) == IF b = "current" THEN NoErr ELSE err

\* mutant of walkFn: a file whose ID has no entry creates one
walkFn_FileCreates(m, filePath, isDir, baseName, err, b) ==
  IF err # NoErr THEN [containers |-> m, err |-> WalkFnErr(b, err)]
  ELSE
    LET matches == FindStringSubmatch(filePath)
        id == matches[2]
        m1 == IF id \in DOMAIN m THEN m ELSE (id :> ZeroCstats) @@ m
    IN IF Len(matches) < 2 THEN [containers |-> m, err |-> NoErr]
       ELSE IF isDir THEN [containers |-> m1, err |-> NoErr]
       ELSE [containers |-> [m1 EXCEPT ![id] = BindPath(@, baseName, filePath, b)],
             err |-> NoErr]

\* mutant of walkFn: a matching directory always gets a new entry
walkFn_DirResets(m, filePath, isDir, baseName, err, b) ==
  IF err # NoErr THEN [containers |-> m, err |-> WalkFnErr(b, err)]
  ELSE
    LET matches == FindStringSubmatch(filePath)
        id == matches[2]
    IN IF Len(matches) < 2 THEN [containers |-> m, err |-> NoErr]
       ELSE IF isDir
         THEN [containers |-> (id :> ZeroCstats) @@ m, err |-> NoErr]
         ELSE [containers |-> IF id \in DOMAIN m
                                THEN [m EXCEPT ![id] =
                                        BindPath(@, baseName, filePath, b)]
                                ELSE m,
               err |-> NoErr]

\* walkFn(filePath, info, err) on the containers map m: the map it leaves
\* and the error it returns
walkFn(m, filePath, isDir, baseName, err, b) ==
  IF err # NoErr THEN [containers |-> m, err |-> WalkFnErr(b, err)]
  ELSE
    LET matches == FindStringSubmatch(filePath)
        id == matches[2]
    IN IF Len(matches) < 2 THEN [containers |-> m, err |-> NoErr]
       ELSE IF isDir
         THEN [containers |-> IF id \in DOMAIN m THEN m
                              ELSE (id :> ZeroCstats) @@ m,
               err |-> NoErr]
         ELSE [containers |-> IF id \in DOMAIN m
                                THEN [m EXCEPT ![id] =
                                        BindPath(@, baseName, filePath, b)]
                                ELSE m,
               err |-> NoErr]

(***************************************************************************)
(* ReadStats: the body of its loop for one entry.                          *)
(***************************************************************************)
\* mutant of ReadErrEnd: every failed read is returned as an error
ReadErrEnd_Return(err) == err

\* mutant of ReadErrEnd: every failed read deletes the entry
ReadErrEnd_Delete(err) == "delete"

\* how the loop body goes on after a failed read: "delete" the entry and
\* continue with the next one, or return the error
ReadErrEnd(err) == IF IsNotExist(err) THEN "delete" ELSE err

\* mutant of ReadMemory: the path is read without the test for ""
ReadMemory_NoPathTest(cs, t) ==
  IF cs.Memory.path = NoPath THEN [cs |-> cs, end |-> ReadErrEnd(ENOENT)]
  ELSE LET r == readFile(cs.Memory.path)
       IN IF r.err # NoErr THEN [cs |-> cs, end |-> ReadErrEnd(r.err)]
          ELSE [cs |-> [cs EXCEPT !.Memory = MemStat_create(@, r.b, t)],
                end |-> "ok"]

ReadMemory(cs, t) ==
  IF cs.Memory.path = NoPath THEN [cs |-> cs, end |-> "ok"]
  ELSE LET r == readFile(cs.Memory.path)
       IN IF r.err # NoErr THEN [cs |-> cs, end |-> ReadErrEnd(r.err)]
          ELSE [cs |-> [cs EXCEPT !.Memory = MemStat_create(@, r.b, t)],
                end |-> "ok"]

\* mutant of ReadCPU: the CPU file is not read
ReadCPU_Skip(cs, t) == [cs |-> cs, end |-> "ok"]

ReadCPU(cs, t) ==
  IF cs.CPU.path = NoPath THEN [cs |-> cs, end |-> "ok"]
  ELSE LET r == readFile(cs.CPU.path)
       IN IF r.err # NoErr THEN [cs |-> cs, end |-> ReadErrEnd(r.err)]
          ELSE [cs |-> [cs EXCEPT !.CPU = CPUStat_create(@, r.b, t)],
                end |-> "ok"]

ReadBytes(cs, t) ==
  IF cs.BlkIO.Bytes.path = NoPath THEN [cs |-> cs, end |-> "ok"]
  ELSE LET r == readFile(cs.BlkIO.Bytes.path)
       IN IF r.err # NoErr THEN [cs |-> cs, end |-> ReadErrEnd(r.err)]
          ELSE [cs |-> [cs EXCEPT !.BlkIO.Bytes = BlkServiced_create(@, r.b, t)],
                end |-> "ok"]

ReadIOPS(cs, t) ==
  IF cs.BlkIO.IOPS.path = NoPath THEN [cs |-> cs, end |-> "ok"]
  ELSE LET r == readFile(cs.BlkIO.IOPS.path)
       IN IF r.err # NoErr THEN [cs |-> cs, end |-> ReadErrEnd(r.err)]
          ELSE [cs |-> [cs EXCEPT !.BlkIO.IOPS = BlkServiced_create(@, r.b, t)],
                end |-> "ok"]

\* the entry as the loop body leaves it, and how the body ends: "ok",
\* "delete" or the error ReadStats returns.  ReadCgroups of the gocstat
\* build reads memory and CPU only and stamps no time.
ReadEntry(cs, b) ==
  LET t == IF b = "current" THEN now ELSE ZeroTime
      s1 == ReadMemory(cs, t)
      s2 == IF s1.end = "ok" THEN ReadCPU(s1.cs, t) ELSE s1
      s3 == IF s2.end = "ok" /\ b = "current" THEN ReadBytes(s2.cs, t) ELSE s2
      s4 == IF s3.end = "ok" /\ b = "current" THEN ReadIOPS(s3.cs, t) ELSE s3
  IN s4

(***************************************************************************)
(* Processes.                                                              *)
(***************************************************************************)
TaskNames == <<"g1", "g2">>
NotInitialized == "not initialized"
RegexpError == "error parsing regexp"
WalkError == "error walking path"

\* the channels the application can hand to Init: none, make(chan error),
\* make(chan error, 1)
Chans == {NoChan, "unbuffered", "buffered"}
ChanCap(ch) == IF ch = "buffered" THEN 1 ELSE 0

NoRet == [called |-> FALSE, stats |-> NoHolder, err |-> NoErr]
\* a thread outside ReadStats.  Of its latest call it keeps what ReadStats
\* returned (ret) and, as history, the entry the loop handled last and the
\* entries the loop deleted and updated.
IdleCaller ==
  [pc |-> "idle", h |-> NoHolder, todo |-> {}, last |-> "", evicted |-> {},
   updated |-> {}, ret |-> NoRet]
\* the goroutine Init starts, about to call updatePaths; as history it keeps
\* whether its first call of updatePaths has yet to return (first)
NewTask(ch) ==
  [pc |-> "call", errChan |-> ch, err |-> NoErr, h |-> NoHolder,
   names |-> <<>>, files |-> <<>>, dir |-> "", first |-> TRUE]

\* no function is called on its own
NoCall == [fn |-> "none", in |-> <<>>, out |-> <<>>]

\* the state before Init is called, over the cgroup trees in roots x dirs
InitialOver(builds, roots) ==
  /\ build \in builds
  /\ fsRoot \in roots
  /\ fsDirs \in SUBSET Ids
  /\ \E F \in FileSets :
       fsFiles = [id \in Ids |-> [f \in FileNameSet |->
                    IF id \in fsDirs /\ f \in F THEN "ok" ELSE "absent"]]
  /\ now = 1
  /\ fsEvents = 0
  /\ re = "nil"
  /\ initRet = "none"
  /\ statsHolder = NoHolder
  /\ holders = <<>>
  /\ lastPass = <<>>
  /\ tasks = <<>>
  /\ callers = [c \in Callers |-> IdleCaller]
  /\ errCh = [buf |-> <<>>, closed |-> FALSE, recv |-> "idle", got |-> {},
              attempts |-> 0, handed |-> 0]
  /\ call = NoCall

(***************************************************************************)
(* Init(errChan), with the pattern in ContainerDirRegexp valid or not.     *)
(***************************************************************************)
\* regexp.Compile(ContainerDirRegexp)
Compile(pattern) ==
  IF pattern = "valid" THEN [re |-> "compiled", err |-> NoErr]
  ELSE [re |-> "nil", err |-> RegexpError]

\* mutant of InitProceeds: the error of regexp.Compile is not tested
InitProceeds_Always(err) == TRUE

\* whether Init goes on to allocate the holder and start the goroutine
InitProceeds(err) == err = NoErr

Init(pattern, errChan) ==
  LET c == Compile(pattern)
  IN /\ re' = c.re
     /\ IF InitProceeds(c.err)
          THEN /\ holders' = Append(holders, [mu |-> Free, containers |-> NoContainers])
               /\ lastPass' = Append(lastPass, NoContainers)
               /\ statsHolder' = Len(holders) + 1
               /\ tasks' = Append(tasks, NewTask(errChan))
          ELSE UNCHANGED <<holders, lastPass, statsHolder, tasks>>
     /\ initRet' = c.err
     /\ UNCHANGED <<build, call, fsVars, callers, errCh>>

(***************************************************************************)
(* The goroutine of Init: updatePaths, report or sleep, again.             *)
(***************************************************************************)
\* mutant of CanLock: Lock() that does not wait
CanLock_NoWait(h) == TRUE

\* mutant of CanLock: Lock() waits for other callers only
CanLock_OverTask(h) == holders[h].mu = Free \/ holders[h].mu \notin Callers

\* sync.Mutex: Lock() returns only when the mutex is unlocked
CanLock(h) == holders[h].mu = Free

\* mutant of AfterPass: the loop never returns
AfterPass_Sleep(err, errChan) == "sleep"

\* mutant of AfterPass: the goroutine returns after its first pass
AfterPass_Return(err, errChan) == "done"

\* where the goroutine goes after updatePaths returned err
AfterPass(err, errChan) ==
  IF err # NoErr /\ errChan # NoChan THEN "send" ELSE "sleep"

\* the error updatePaths makes of what filepath.Walk returned
updatePathsErr(err) == IF err # NoErr THEN WalkError ELSE NoErr

\* the holder whose mutex updatePaths of goroutine t has locked: the receiver
\* of the deferred Unlock is the holder statsHolder pointed to at the Lock
Locked(t) == IF tasks[t].h = NoHolder THEN statsHolder ELSE tasks[t].h

\* mutant of EndPass: no Unlock when updatePaths returns an error
EndPass_ErrorKeepsLock(t, m, err) ==
  /\ holders' = [holders EXCEPT ![statsHolder].containers = m,
                                ![Locked(t)].mu =
                                   IF err # NoErr THEN TaskNames[t] ELSE Free]
  /\ lastPass' = [lastPass EXCEPT ![statsHolder] = m]
  /\ tasks' = [tasks EXCEPT ![t] =
       [pc |-> AfterPass(updatePathsErr(err), tasks[t].errChan),
        errChan |-> tasks[t].errChan, err |-> updatePathsErr(err),
        h |-> NoHolder, names |-> <<>>, files |-> <<>>, dir |-> "",
        first |-> FALSE]]

\* updatePaths returns: the deferred Unlock, then the goroutine's test of err.
\* walkFn has written to the map of the holder statsHolder points to now.
EndPass(t, m, err) ==
  /\ holders' = [holders EXCEPT ![statsHolder].containers = m,
                                ![Locked(t)].mu = Free]
  /\ lastPass' = [lastPass EXCEPT ![statsHolder] = m]
  /\ tasks' = [tasks EXCEPT ![t] =
       [pc |-> AfterPass(updatePathsErr(err), tasks[t].errChan),
        errChan |-> tasks[t].errChan, err |-> updatePathsErr(err),
        h |-> NoHolder, names |-> <<>>, files |-> <<>>, dir |-> "",
        first |-> FALSE]]

\* updatePaths: statsHolder.Lock(); filepath.Walk starts with Lstat(root),
\* walkFn(root) and the names in root
updatePaths(t) ==
  /\ tasks[t].pc = "call"
  /\ CanLock(statsHolder)
  /\ \E r \in {walkFn(holders[statsHolder].containers, BasePath, TRUE, "",
                        IF fsRoot = "ok" THEN NoErr ELSE ENOENT, build)} :
        IF fsRoot # "ok" \/ r.err # NoErr
          THEN EndPass(t, r.containers, r.err)
          ELSE /\ holders' = [holders EXCEPT ![statsHolder].containers = r.containers,
                                             ![statsHolder].mu = TaskNames[t]]
               /\ tasks' = [tasks EXCEPT ![t].pc = "walk", ![t].h = statsHolder,
                                         ![t].names = DirNames]
               /\ UNCHANGED lastPass
  /\ UNCHANGED <<build, call, fsVars, re, initRet, statsHolder, callers, errCh>>

\* filepath.Walk visits the next container directory: Lstat, walkFn, and the
\* names in it
WalkDir(t) ==
  /\ tasks[t].pc = "walk"
  /\ tasks[t].files = <<>>
  /\ tasks[t].names # <<>>
  /\ \E id \in {Head(tasks[t].names)} :
     \E r \in {walkFn(holders[statsHolder].containers, <<id>>, TRUE, id,
                        IF DirExists(id) THEN NoErr ELSE ENOENT, build)} :
        IF r.err # NoErr
          THEN EndPass(t, r.containers, r.err)
          ELSE /\ holders' = [holders EXCEPT ![statsHolder].containers = r.containers]
               /\ tasks' = [tasks EXCEPT ![t].names = Tail(@), ![t].dir = id,
                              ![t].files = IF DirExists(id) THEN DirFiles(id) ELSE <<>>]
               /\ UNCHANGED lastPass
  /\ UNCHANGED <<build, call, fsVars, re, initRet, statsHolder, callers, errCh>>

\* walkFn on the files of one directory, in order, up to the first error
RECURSIVE WalkFileList(_, _, _, _)
WalkFileList(m, dir, files, b) ==
  IF files = <<>> THEN [containers |-> m, err |-> NoErr]
  ELSE LET path == <<dir, Head(files)>>
           r == walkFn(m, path, FALSE, Head(files),
                       IF FileExists(path) THEN NoErr ELSE ENOENT, b)
       IN IF r.err # NoErr THEN r
          ELSE WalkFileList(r.containers, dir, Tail(files), b)

\* filepath.Walk visits the files of the directory: Lstat and walkFn for each
WalkFiles(t) ==
  /\ tasks[t].pc = "walk"
  /\ tasks[t].files # <<>>
  /\ \E r \in {WalkFileList(holders[statsHolder].containers, tasks[t].dir,
                              tasks[t].files, build)} :
        IF r.err # NoErr
          THEN EndPass(t, r.containers, r.err)
          ELSE /\ holders' = [holders EXCEPT ![statsHolder].containers = r.containers]
               /\ tasks' = [tasks EXCEPT ![t].files = <<>>]
               /\ UNCHANGED lastPass
  /\ UNCHANGED <<build, call, fsVars, re, initRet, statsHolder, callers, errCh>>

\* filepath.Walk has visited everything: updatePaths returns nil
WalkDone(t) ==
  /\ tasks[t].pc = "walk"
  /\ tasks[t].files = <<>>
  /\ tasks[t].names = <<>>
  /\ EndPass(t, holders[statsHolder].containers, NoErr)
  /\ UNCHANGED <<build, call, fsVars, re, initRet, statsHolder, callers, errCh>>

\* mutant of CanSend: the send case always proceeds
CanSend_Always(ch) == TRUE

\* whether the send case of the select can proceed: a receiver is waiting or
\* the buffer has room
CanSend(ch) == errCh.recv = "waiting" \/ Len(errCh.buf) < ChanCap(ch)

\* select { case errChan <- err: default: }
TaskSend(t) ==
  /\ tasks[t].pc = "send"
  /\ errCh' =
       IF ~CanSend(tasks[t].errChan)
         THEN [errCh EXCEPT !.attempts = @ + 1]
       ELSE IF errCh.recv = "waiting"
         THEN [errCh EXCEPT !.recv = "idle", !.got = @ \cup {tasks[t].err},
                            !.attempts = @ + 1, !.handed = @ + 1]
       ELSE [errCh EXCEPT !.buf = Append(@, tasks[t].err),
                          !.attempts = @ + 1, !.handed = @ + 1]
  /\ tasks' = [tasks EXCEPT ![t].pc = "close"]
  /\ UNCHANGED <<build, call, fsVars, re, initRet, statsHolder, holders, lastPass, callers>>

\* close(errChan); return
TaskClose(t) ==
  /\ tasks[t].pc = "close"
  /\ errCh' =
       IF errCh.recv = "waiting"
         THEN [errCh EXCEPT !.closed = TRUE, !.recv = "idle", !.got = @ \cup {NoErr}]
         ELSE [errCh EXCEPT !.closed = TRUE]
  /\ tasks' = [tasks EXCEPT ![t].pc = "done"]
  /\ UNCHANGED <<build, call, fsVars, re, initRet, statsHolder, holders, lastPass, callers>>

\* time.Sleep(namesUpdateInterval) is over
TaskWake(t) ==
  /\ tasks[t].pc = "sleep"
  /\ tasks' = [tasks EXCEPT ![t].pc = "call"]
  /\ UNCHANGED <<build, call, fsVars, re, initRet, statsHolder, holders, lastPass, callers, errCh>>

\* the application receives from the error channel: err = <-errChan
Receive ==
  /\ errCh.recv = "idle"
  /\ errCh' =
       IF errCh.buf # <<>>
         THEN [errCh EXCEPT !.got = @ \cup {Head(errCh.buf)}, !.buf = Tail(@)]
       ELSE IF errCh.closed
         THEN [errCh EXCEPT !.got = @ \cup {NoErr}]
       ELSE [errCh EXCEPT !.recv = "waiting"]
  /\ UNCHANGED <<build, call, fsVars, re, initRet, statsHolder, holders, lastPass, tasks, callers>>

(***************************************************************************)
(* ReadStats, called by the threads of the application.                    *)
(***************************************************************************)
\* mutant of UninitRet: nil, nil
UninitRet_NoError == [called |-> TRUE, stats |-> NoHolder, err |-> NoErr]

\* what ReadStats returns when statsHolder is nil
UninitRet == [called |-> TRUE, stats |-> NoHolder, err |-> NotInitialized]

\* mutant of StoreOnError: the pass is rolled back
StoreOnError_Rollback(m, h) == lastPass[h]

\* the map ReadStats leaves in the holder when it returns a read error: m,
\* as the loop has changed it so far
StoreOnError(m, h) == m

\* ReadStats is called: the nil test of statsHolder, then statsHolder.Lock()
\* and the range over the map begins
ReadStats(c) ==
  /\ callers[c].pc = "idle"
  /\ IF statsHolder = NoHolder
       THEN /\ callers' = [callers EXCEPT ![c] = [IdleCaller EXCEPT !.ret = UninitRet]]
            /\ UNCHANGED holders
       ELSE /\ CanLock(statsHolder)
            /\ holders' = [holders EXCEPT ![statsHolder].mu = c]
            /\ callers' = [callers EXCEPT ![c] =
                 [IdleCaller EXCEPT !.pc = "range", !.h = statsHolder,
                    !.todo = DOMAIN holders[statsHolder].containers]]
  /\ UNCHANGED <<build, call, fsVars, re, initRet, statsHolder, lastPass, tasks, errCh>>

\* mutant of ReadStatsEntry: no Unlock when a read error is returned
ReadStatsEntry_ErrorKeepsLock(c, id) ==
  /\ callers[c].pc = "range"
  /\ id \in callers[c].todo
  /\ id \in DOMAIN holders[statsHolder].containers
  /\ \E r \in {ReadEntry(holders[statsHolder].containers[id], build)} :
     LET m == holders[statsHolder].containers
         m1 == IF r.end = "delete" THEN Delete(m, id) ELSE [m EXCEPT ![id] = r.cs]
         m2 == StoreOnError(m1, statsHolder)
     IN IF r.end \in {"ok", "delete"}
          THEN /\ holders' = [holders EXCEPT ![statsHolder].containers = m1]
               /\ callers' = [callers EXCEPT
                    ![c].todo = @ \ {id}, ![c].last = id,
                    ![c].evicted = IF r.end = "delete" THEN @ \cup {id} ELSE @,
                    ![c].updated = IF r.end = "ok" THEN @ \cup {id} ELSE @]
               /\ UNCHANGED lastPass
          ELSE /\ holders' = [holders EXCEPT ![statsHolder].containers = m2]
               /\ lastPass' = [lastPass EXCEPT ![statsHolder] = m2]
               /\ callers' = [callers EXCEPT
                    ![c].pc = "idle", ![c].h = NoHolder, ![c].todo = {},
                    ![c].last = id,
                    ![c].ret = [called |-> TRUE, stats |-> NoHolder, err |-> r.end]]
  /\ UNCHANGED <<build, call, fsVars, re, initRet, statsHolder, tasks, errCh>>

\* one iteration of the loop, on entry id; a read error other than
\* not-exist ends ReadStats (the deferred Unlock runs)
ReadStatsEntry(c, id) ==
  /\ callers[c].pc = "range"
  /\ id \in callers[c].todo
  /\ id \in DOMAIN holders[statsHolder].containers
  /\ \E r \in {ReadEntry(holders[statsHolder].containers[id], build)} :
     LET m == holders[statsHolder].containers
         m1 == IF r.end = "delete" THEN Delete(m, id) ELSE [m EXCEPT ![id] = r.cs]
         m2 == StoreOnError(m1, statsHolder)
     IN IF r.end \in {"ok", "delete"}
          THEN /\ holders' = [holders EXCEPT ![statsHolder].containers = m1]
               /\ callers' = [callers EXCEPT
                    ![c].todo = @ \ {id}, ![c].last = id,
                    ![c].evicted = IF r.end = "delete" THEN @ \cup {id} ELSE @,
                    ![c].updated = IF r.end = "ok" THEN @ \cup {id} ELSE @]
               /\ UNCHANGED lastPass
          ELSE /\ holders' = [holders EXCEPT ![statsHolder].containers = m2,
                                             ![statsHolder].mu = Free]
               /\ lastPass' = [lastPass EXCEPT ![statsHolder] = m2]
               /\ callers' = [callers EXCEPT
                    ![c].pc = "idle", ![c].h = NoHolder, ![c].todo = {},
                    ![c].last = id,
                    ![c].ret = [called |-> TRUE, stats |-> NoHolder, err |-> r.end]]
  /\ UNCHANGED <<build, call, fsVars, re, initRet, statsHolder, tasks, errCh>>

\* the loop is over: return statsHolder.containers, nil (the deferred Unlock
\* runs); the caller holds the map itself, not a copy
ReadStatsReturn(c) ==
  /\ callers[c].pc = "range"
  /\ callers[c].todo \cap DOMAIN holders[statsHolder].containers = {}
  /\ holders' = [holders EXCEPT ![statsHolder].mu = Free]
  /\ lastPass' = [lastPass EXCEPT ![statsHolder] = holders[statsHolder].containers]
  /\ callers' = [callers EXCEPT
       ![c].pc = "idle", ![c].h = NoHolder, ![c].todo = {},
       ![c].ret = [called |-> TRUE, stats |-> statsHolder, err |-> NoErr]]
  /\ UNCHANGED <<build, call, fsVars, re, initRet, statsHolder, tasks, errCh>>

(***************************************************************************)
(* The variant of ReadStats that reads through readFile(path, id): Init,   *)
(* updatePaths, walkFn and the create methods are those of the latest      *)
(* build; readFile deletes the entry itself when the file does not exist.  *)
(***************************************************************************)
\* the run-time panic of Go: invalid memory address or nil pointer dereference
NilDeref == "nil pointer dereference"

\* readFile(path, id) on the map m: the content, the error and the map it
\* leaves
readFileId(m, path, id) ==
  CASE FileStatus(path) = "ok" ->
         [b |-> Content(path[1], path[2], now), err |-> NoErr, stats |-> m]
    [] FileStatus(path) = "denied" -> [b |-> <<>>, err |-> EACCES, stats |-> m]
    [] OTHER -> [b |-> << <<>> >>, err |-> NoErr, stats |-> Delete(m, id)]

\* one if block of the loop body: the read through readFile, the return of
\* its error, then statsHolder.stats[id].X.create(string(b)), where
\* statsHolder.stats[id] is nil once the key is deleted.  cs is the loop
\* variable: the entry the key had when the iteration began.
ReadMemoryId(s, cs, id, t) ==
  IF s.end # "ok" \/ cs.Memory.path = NoPath THEN s
  ELSE \* the read
       LET r == readFileId(s.stats, cs.Memory.path, id)
       IN IF r.err # NoErr THEN [stats |-> r.stats, end |-> r.err]
          ELSE IF id \notin DOMAIN r.stats
            THEN [stats |-> r.stats, end |-> NilDeref]
          ELSE [stats |-> [r.stats EXCEPT ![id].Memory =
                             MemStat_create(@, r.b, t)],
                end |-> "ok"]

ReadCPUId(s, cs, id, t) ==
  IF s.end # "ok" \/ cs.CPU.path = NoPath THEN s
  ELSE LET r == readFileId(s.stats, cs.CPU.path, id)
       IN IF r.err # NoErr THEN [stats |-> r.stats, end |-> r.err]
          ELSE IF id \notin DOMAIN r.stats
            THEN [stats |-> r.stats, end |-> NilDeref]
          ELSE [stats |-> [r.stats EXCEPT ![id].CPU =
                             CPUStat_create(@, r.b, t)],
                end |-> "ok"]

ReadBytesId(s, cs, id, t) ==
  IF s.end # "ok" \/ cs.BlkIO.Bytes.path = NoPath THEN s
  ELSE LET r == readFileId(s.stats, cs.BlkIO.Bytes.path, id)
       IN IF r.err # NoErr THEN [stats |-> r.stats, end |-> r.err]
          ELSE IF id \notin DOMAIN r.stats
            THEN [stats |-> r.stats, end |-> NilDeref]
          ELSE [stats |-> [r.stats EXCEPT ![id].BlkIO.Bytes =
                             BlkServiced_create(@, r.b, t)],
                end |-> "ok"]

ReadIOPSId(s, cs, id, t) ==
  IF s.end # "ok" \/ cs.BlkIO.IOPS.path = NoPath THEN s
  ELSE LET r == readFileId(s.stats, cs.BlkIO.IOPS.path, id)
       IN IF r.err # NoErr THEN [stats |-> r.stats, end |-> r.err]
          ELSE IF id \notin DOMAIN r.stats
            THEN [stats |-> r.stats, end |-> NilDeref]
          ELSE [stats |-> [r.stats EXCEPT ![id].BlkIO.IOPS =
                             BlkServiced_create(@, r.b, t)],
                end |-> "ok"]

\* the loop body on entry id of the map m: the map it leaves and how it
\* ends: "ok", the error ReadStats returns, or the panic
ReadEntryId(m, id) ==
  LET cs == m[id]
  IN ReadIOPSId(ReadBytesId(ReadCPUId(ReadMemoryId(
       [stats |-> m, end |-> "ok"], cs, id, now), cs, id, now),
       cs, id, now), cs, id, now)

\* one iteration of the loop of this ReadStats, on entry id; on a return
\* and on a panic the deferred Unlock runs, and the panic goes up into the
\* caller
ReadStatsEntryId(c, id) ==
  /\ callers[c].pc = "range"
  /\ id \in callers[c].todo
  /\ id \in DOMAIN holders[statsHolder].containers
  /\ \E r \in {ReadEntryId(holders[statsHolder].containers, id)} :
       IF r.end = "ok"
         THEN /\ holders' = [holders EXCEPT ![statsHolder].containers = r.stats]
              /\ callers' = [callers EXCEPT
                   ![c].todo = @ \ {id}, ![c].last = id,
                   ![c].updated = @ \cup {id}]
              /\ UNCHANGED lastPass
         ELSE /\ holders' = [holders EXCEPT ![statsHolder].containers = r.stats,
                                            ![statsHolder].mu = Free]
              /\ lastPass' = [lastPass EXCEPT ![statsHolder] = r.stats]
              /\ callers' = [callers EXCEPT
                   ![c].pc = IF r.end = NilDeref THEN "panic" ELSE "idle",
                   ![c].h = NoHolder, ![c].todo = {}, ![c].last = id,
                   ![c].evicted = IF id \in DOMAIN r.stats THEN @ ELSE @ \cup {id},
                   ![c].ret = IF r.end = NilDeref THEN NoRet
                              ELSE [called |-> TRUE, stats |-> NoHolder,
                                    err |-> r.end]]
  /\ UNCHANGED <<build, call, fsVars, re, initRet, statsHolder, tasks, errCh>>

(***************************************************************************)
(* The environment: containers start and stop, files go away or become     *)
(* unreadable, BasePath goes away and comes back, time passes.             *)
(***************************************************************************)
EnvStart(id, F) ==
  /\ fsEvents < MaxEnvEvents
  /\ id \notin fsDirs
  /\ fsDirs' = fsDirs \cup {id}
  /\ fsFiles' = [fsFiles EXCEPT ![id] =
                   [f \in FileNameSet |-> IF f \in F THEN "ok" ELSE "absent"]]
  /\ fsEvents' = fsEvents + 1
  /\ UNCHANGED <<build, call, fsRoot, now, re, initRet, statsHolder, holders, lastPass,
                 tasks, callers, errCh>>

EnvStop(id) ==
  /\ fsEvents < MaxEnvEvents
  /\ id \in fsDirs
  /\ fsDirs' = fsDirs \ {id}
  /\ fsFiles' = [fsFiles EXCEPT ![id] = [f \in FileNameSet |-> "absent"]]
  /\ fsEvents' = fsEvents + 1
  /\ UNCHANGED <<build, call, fsRoot, now, re, initRet, statsHolder, holders, lastPass,
                 tasks, callers, errCh>>

EnvRemoveFile(id, f) ==
  /\ fsEvents < MaxEnvEvents
  /\ id \in fsDirs
  /\ fsFiles[id][f] # "absent"
  /\ fsFiles' = [fsFiles EXCEPT ![id][f] = "absent"]
  /\ fsEvents' = fsEvents + 1
  /\ UNCHANGED <<build, call, fsRoot, fsDirs, now, re, initRet, statsHolder, holders,
                 lastPass, tasks, callers, errCh>>

EnvDenyFile(id, f) ==
  /\ fsEvents < MaxEnvEvents
  /\ id \in fsDirs
  /\ fsFiles[id][f] = "ok"
  /\ fsFiles' = [fsFiles EXCEPT ![id][f] = "denied"]
  /\ fsEvents' = fsEvents + 1
  /\ UNCHANGED <<build, call, fsRoot, fsDirs, now, re, initRet, statsHolder, holders,
                 lastPass, tasks, callers, errCh>>

EnvRoot ==
  /\ fsEvents < MaxEnvEvents
  /\ fsRoot' = IF fsRoot = "ok" THEN "missing" ELSE "ok"
  /\ fsEvents' = fsEvents + 1
  /\ UNCHANGED <<build, call, fsDirs, fsFiles, now, re, initRet, statsHolder, holders,
                 lastPass, tasks, callers, errCh>>

Tick ==
  /\ fsEvents < MaxEnvEvents
  /\ now' = now + 1
  /\ fsEvents' = fsEvents + 1
  /\ UNCHANGED <<build, call, fsRoot, fsDirs, fsFiles, re, initRet, statsHolder,
                 holders, lastPass, tasks, callers, errCh>>

(***************************************************************************)
(* Spec: the latest build used as documented (Init is called until it      *)
(* succeeds, and not again), under a BasePath that exists.  In this build  *)
(* updatePaths never returns an error, so the goroutine never reports.     *)
(***************************************************************************)
Initial == InitialOver({"current"}, {"ok"})

Next ==
  \/ \E pattern \in {"valid", "invalid"} :
       statsHolder = NoHolder /\ Init(pattern, NoChan)
  \/ \E t \in DOMAIN tasks : updatePaths(t)
  \/ \E t \in DOMAIN tasks : WalkDir(t)
  \/ \E t \in DOMAIN tasks : WalkFiles(t)
  \/ \E t \in DOMAIN tasks : WalkDone(t)
  \/ \E t \in DOMAIN tasks : TaskWake(t)
  \/ \E c \in Callers : ReadStats(c)
  \/ \E c \in Callers, id \in Ids : ReadStatsEntry(c, id)
  \/ \E c \in Callers : ReadStatsReturn(c)
  \/ \E id \in Ids, F \in FileSets : EnvStart(id, F)
  \/ \E id \in Ids : EnvStop(id)
  \/ \E id \in FaultIds, f \in FileNameSet : EnvRemoveFile(id, f)
  \/ \E id \in FaultIds, f \in FileNameSet : EnvDenyFile(id, f)
  \/ Tick

Spec == Initial /\ [][Next]_vars

(***************************************************************************)
(* SpecReinit: the latest build with an application that calls Init again  *)
(* after it has succeeded (Init has no test for that), at any moment of    *)
(* the goroutine but while none of its own threads is inside ReadStats,    *)
(* and with a pattern that stays valid.  Every goroutine reads the         *)
(* package variable statsHolder at each use.  The tree does not change.    *)
(***************************************************************************)
NextReinit ==
  \/ \E pattern \in {"valid", "invalid"} :
       /\ Len(tasks) < Len(TaskNames)
       /\ statsHolder # NoHolder => pattern = "valid"
       /\ \A c \in Callers : callers[c].pc = "idle"
       /\ Init(pattern, NoChan)
  \/ \E t \in DOMAIN tasks : updatePaths(t)
  \/ \E t \in DOMAIN tasks : WalkDir(t)
  \/ \E t \in DOMAIN tasks : WalkFiles(t)
  \/ \E t \in DOMAIN tasks : WalkDone(t)
  \/ \E t \in DOMAIN tasks : TaskWake(t)
  \/ ReadStats("u1")
  \/ \E id \in Ids : ReadStatsEntry("u1", id)
  \/ ReadStatsReturn("u1")

SpecReinit == Initial /\ [][NextReinit]_vars

(***************************************************************************)
(* SpecId: the variant whose ReadStats reads through readFile(path, id),   *)
(* with one thread that calls ReadStats and a tree in which containers     *)
(* stop and files go away or become unreadable.  The panic of a thread is  *)
(* kept as its position; what the application makes of it is not modelled. *)
(***************************************************************************)
NextId ==
  \/ \E pattern \in {"valid", "invalid"} :
       statsHolder = NoHolder /\ Init(pattern, NoChan)
  \/ \E t \in DOMAIN tasks : updatePaths(t)
  \/ \E t \in DOMAIN tasks : WalkDir(t)
  \/ \E t \in DOMAIN tasks : WalkFiles(t)
  \/ \E t \in DOMAIN tasks : WalkDone(t)
  \/ \E t \in DOMAIN tasks : TaskWake(t)
  \/ ReadStats("u1")
  \/ \E id \in Ids : ReadStatsEntryId("u1", id)
  \/ ReadStatsReturn("u1")
  \/ \E id \in Ids : EnvStop(id)
  \/ \E id \in FaultIds, f \in FileNameSet : EnvRemoveFile(id, f)
  \/ \E id \in FaultIds, f \in FileNameSet : EnvDenyFile(id, f)

SpecId == Initial /\ [][NextId]_vars

(***************************************************************************)
(* SpecLive: the latest build under fair scheduling of the goroutine, with *)
(* one thread that calls ReadStats and a tree in which containers start    *)
(* and stop and files go away.  A goroutine that can run does run, and     *)
(* sync.Mutex hands the lock to a goroutine that keeps waiting in Lock()   *)
(* (starvation mode), so updatePaths is not overtaken forever.  Nothing is *)
(* assumed of the application: it need not call Init or ReadStats, nor     *)
(* leave ReadStats.                                                        *)
(***************************************************************************)
NextLive ==
  \/ \E pattern \in {"valid", "invalid"} :
       statsHolder = NoHolder /\ Init(pattern, NoChan)
  \/ \E t \in DOMAIN tasks : updatePaths(t)
  \/ \E t \in DOMAIN tasks : WalkDir(t)
  \/ \E t \in DOMAIN tasks : WalkFiles(t)
  \/ \E t \in DOMAIN tasks : WalkDone(t)
  \/ \E t \in DOMAIN tasks : TaskWake(t)
  \/ ReadStats("u1")
  \/ \E id \in Ids : ReadStatsEntry("u1", id)
  \/ ReadStatsReturn("u1")
  \/ \E id \in Ids, F \in FileSets : EnvStart(id, F)
  \/ \E id \in Ids : EnvStop(id)
  \/ \E id \in FaultIds, f \in FileNameSet : EnvRemoveFile(id, f)

Fairness ==
  \A t \in 1..Len(TaskNames) :
    /\ SF_vars(t \in DOMAIN tasks /\ updatePaths(t))
    /\ WF_vars(t \in DOMAIN tasks
                 /\ (WalkDir(t) \/ WalkFiles(t) \/ WalkDone(t) \/ TaskWake(t)))

SpecLive == Initial /\ [][NextLive]_vars /\ Fairness

(***************************************************************************)
(* SpecErr: either build, with or without an error channel, under a        *)
(* BasePath that may be missing and container directories that may vanish; *)
(* one thread calls ReadStats.                                             *)
(***************************************************************************)
InitialErr == InitialOver(Builds, {"ok", "missing"})

NextErr ==
  \/ \E pattern \in {"valid", "invalid"}, errChan \in Chans :
       statsHolder = NoHolder /\ Init(pattern, errChan)
  \/ \E t \in DOMAIN tasks : updatePaths(t)
  \/ \E t \in DOMAIN tasks : WalkDir(t)
  \/ \E t \in DOMAIN tasks : WalkFiles(t)
  \/ \E t \in DOMAIN tasks : WalkDone(t)
  \/ \E t \in DOMAIN tasks : TaskSend(t)
  \/ \E t \in DOMAIN tasks : TaskClose(t)
  \/ \E t \in DOMAIN tasks : TaskWake(t)
  \/ Receive
  \/ ReadStats("u1")
  \/ \E id \in Ids : ReadStatsEntry("u1", id)
  \/ ReadStatsReturn("u1")
  \/ \E id \in Ids : EnvStop(id)
  \/ EnvRoot

SpecErr == InitialErr /\ [][NextErr]_vars

(***************************************************************************)
(* SpecExit: SpecErr with metric files that may become unreadable, so that *)
(* every way out of a pass is taken: updatePaths returning nil or a walk   *)
(* error, ReadStats returning the map or a read error.                     *)
(***************************************************************************)
NextExit ==
  \/ NextErr
  \/ \E id \in FaultIds, f \in FileNameSet : EnvDenyFile(id, f)

SpecExit == InitialErr /\ [][NextExit]_vars

(***************************************************************************)
(* SpecFn: the parsers and walkFn called on their own, on arguments drawn  *)
(* from bounded sets.                                                      *)
(***************************************************************************)
\* lines of a cpuacct.stat or memory.stat file, as their fields
StatLines ==
  { <<>>, <<"user">>, <<"user", "5">>, <<"nr", "7">>, <<"rss", "200", "kB">>,
    <<"cache", "x">> }

\* the sequences of at most n elements of S
RECURSIVE SeqsUpTo(_, _)
SeqsUpTo(S, n) ==
  IF n = 0 THEN {<<>>}
  ELSE LET shorter == SeqsUpTo(S, n - 1)
       IN shorter \cup {Append(q, x) : q \in {r \in shorter : Len(r) = n - 1}, x \in S}

StatContents == SeqsUpTo(StatLines, MaxLines)

\* a CPUStat (MemStat) that an earlier ReadStats has filled
OldCPU == [User |-> 8, System |-> 9, path |-> <<"c1", cPUFile>>, Timestamp |-> 0]
OldMem == [RSS |-> 8, Cache |-> 9, path |-> <<"c1", memFile>>, Timestamp |-> 0]

\* the rows of one device in a blkio.throttle.* file: the device identifier
\* and the labels of its rows in order; the g-th block counts from 4 * (g - 1)
BlkDevs == {"8:0", "8:1", "sda"}
BlkShapes ==
  { <<"Read", "Write", "Sync", "Async">>,
    <<"Async", "Sync", "Write", "Read">>,
    <<"Read", "Write", "Sync", "Async", "Total">>,
    <<"Read", "Discard">> }
BlkGroups == [dev : BlkDevs, ops : BlkShapes]

\* the number a row shows: its position among the four counters of block g
OpNum(op) ==
  CASE op = "Read" -> 1 [] op = "Write" -> 2 [] op = "Sync" -> 3
    [] op = "Async" -> 4 [] OTHER -> 9
RowUnit(g, op) == NumStr[(((4 * (g - 1)) + OpNum(op) - 1) % Len(NumStr)) + 1]

\* the lines of the blocks from the g-th on
RECURSIVE BlkRows(_, _)
BlkRows(groups, g) ==
  IF g > Len(groups) THEN <<>>
  ELSE [k \in 1..Len(groups[g].ops) |->
          <<groups[g].dev, groups[g].ops[k], RowUnit(g, groups[g].ops[k])>>]
         \o BlkRows(groups, g + 1)

\* the lines before the first block and after the last one
BlkLeads == {<<>>, << <<>> >>}
BlkTrails == {<<>>, << <<"Total", "9">>, <<>> >>}

\* a BlkServiced that an earlier ReadStats has filled
OldBlk ==
  [path |-> <<"c1", blkIOBytesFile>>, Timestamp |-> 0,
   Devices |-> << [ZeroBlkDevice EXCEPT !.Major = 7, !.Read = 7] >>]

\* the containers maps walkFn is called on
EntryWithMem == [ZeroCstats EXCEPT !.Memory.path = <<"c1", memFile>>]
WalkMaps ==
  { NoContainers, ("c1" :> ZeroCstats), ("c1" :> EntryWithMem),
    ("c2" :> ZeroCstats), ("c1" :> EntryWithMem) @@ ("c2" :> ZeroCstats) }
\* the paths filepath.Walk hands to walkFn
WalkPaths ==
  {BasePath} \cup {<<id>> : id \in Ids}
    \cup {<<id, f>> : id \in Ids, f \in FileNameSet \cup {"tasks"}}

InitialFn ==
  /\ build = "current"
  /\ fsRoot = "ok"
  /\ fsDirs = {}
  /\ fsFiles = [id \in Ids |-> [f \in FileNameSet |-> "absent"]]
  /\ now = 1
  /\ fsEvents = 0
  /\ re = "compiled"
  /\ initRet = "none"
  /\ statsHolder = NoHolder
  /\ holders = <<>>
  /\ lastPass = <<>>
  /\ tasks = <<>>
  /\ callers = [c \in Callers |-> IdleCaller]
  /\ errCh = [buf |-> <<>>, closed |-> FALSE, recv |-> "idle", got |-> {},
              attempts |-> 0, handed |-> 0]
  /\ \/ \E st \in {ZeroCPU, OldCPU}, content \in StatContents :
          call = [fn |-> "CPUStat.create",
                  in |-> [stat |-> st, content |-> content], out |-> <<>>]
     \/ \E st \in {ZeroMem, OldMem}, content \in StatContents :
          call = [fn |-> "MemStat.create",
                  in |-> [stat |-> st, content |-> content], out |-> <<>>]
     \/ \E st \in {ZeroBlkServiced, OldBlk},
           groups \in SeqsUpTo(BlkGroups, MaxGroups),
           lead \in BlkLeads, trail \in BlkTrails :
          call = [fn |-> "BlkServiced.create",
                  in |-> [stat |-> st, groups |-> groups, lead |-> lead,
                          trail |-> trail,
                          content |-> lead \o BlkRows(groups, 1) \o trail],
                  out |-> <<>>]
     \/ \E m \in WalkMaps, filePath \in WalkPaths, isDir \in BOOLEAN,
           err \in {NoErr, ENOENT}, b \in Builds :
          call = [fn |-> "walkFn",
                  in |-> [m |-> m, filePath |-> filePath, isDir |-> isDir,
                          baseName |-> filePath[Len(filePath)], err |-> err,
                          b |-> b],
                  out |-> <<>>]

UnchangedProgram ==
  UNCHANGED <<build, fsVars, re, initRet, statsHolder, holders, lastPass,
              tasks, callers, errCh>>

CallCPUStat_create ==
  /\ call.fn = "CPUStat.create" /\ call.out = <<>>
  /\ call' = [call EXCEPT
                !.out = <<CPUStat_create(call.in.stat, call.in.content, now)>>]
  /\ UnchangedProgram

CallMemStat_create ==
  /\ call.fn = "MemStat.create" /\ call.out = <<>>
  /\ call' = [call EXCEPT
                !.out = <<MemStat_create(call.in.stat, call.in.content, now)>>]
  /\ UnchangedProgram

CallBlkServiced_create ==
  /\ call.fn = "BlkServiced.create" /\ call.out = <<>>
  /\ call' = [call EXCEPT
                !.out = <<BlkServiced_create(call.in.stat, call.in.content, now)>>]
  /\ UnchangedProgram

CallwalkFn ==
  /\ call.fn = "walkFn" /\ call.out = <<>>
  /\ call' = [call EXCEPT
                !.out = <<walkFn(call.in.m, call.in.filePath, call.in.isDir,
                                 call.in.baseName, call.in.err, call.in.b)>>]
  /\ UnchangedProgram

NextFn ==
  \/ CallCPUStat_create
  \/ CallMemStat_create
  \/ CallBlkServiced_create
  \/ CallwalkFn

SpecFn == InitialFn /\ [][NextFn]_vars

(***************************************************************************)
(* Properties.                                                             *)
(***************************************************************************)
\* the containers map of the current holder
Store == holders[statsHolder].containers

\* the passes that are inside the critical section of the store
InsidePass ==
  {c \in Callers : callers[c].pc = "range"}
    \cup {TaskNames[t] : t \in {u \in DOMAIN tasks : tasks[u].pc = "walk"}}

\* the step is the iteration of c's ReadStats loop on entry id
StepOn(c, id) ==
  callers[c].pc = "range" /\ callers[c].last # id /\ callers'[c].last = id

\* the bound files of an entry in the order ReadStats reads them
ReadOrder(cs) ==
  <<cs.Memory.path, cs.CPU.path, cs.BlkIO.Bytes.path, cs.BlkIO.IOPS.path>>

\* the first read of the entry's files that fails, fails with this status
FirstFailure(cs, status) ==
  \E k \in 1..4 :
    /\ ReadOrder(cs)[k] # NoPath
    /\ FileStatus(ReadOrder(cs)[k]) = status
    /\ \A j \in 1..(k - 1) :
         ReadOrder(cs)[j] = NoPath \/ FileStatus(ReadOrder(cs)[j]) = "ok"

\* the bound paths of an entry
Paths(cs) == ReadOrder(cs)

\* C1: in every reachable state at most one pass (a discovery pass of the
\* goroutine or a snapshot pass of a caller) is inside the critical section
\* of the store, and the mutex is held exactly while a pass is inside.
C1_OnePassAtATime ==
  /\ Cardinality(InsidePass) <= 1
  /\ statsHolder # NoHolder =>
       (holders[statsHolder].mu = Free <=> InsidePass = {})

\* a snapshot pass is inside while the goroutine is at updatePaths, waiting
\* for the mutex, and the other caller has finished a pass before
C1_Witness ==
  \E c \in Callers, d \in Callers :
    /\ c # d
    /\ callers[c].pc = "range"
    /\ callers[c].todo # {}
    /\ callers[d].ret.stats # NoHolder
    /\ \E t \in DOMAIN tasks : tasks[t].pc = "call"

\* C2 (as claimed): the map a caller holds after ReadStats returned always
\* equals the store as the last finished pass left it.
C2_NoPartialView ==
  \A c \in Callers :
    callers[c].ret.stats # NoHolder =>
      holders[callers[c].ret.stats].containers = lastPass[callers[c].ret.stats]

\* C3: when the first failing read of an entry's bound files fails because
\* the file does not exist, the iteration deletes the entry, touches no other
\* entry, and the loop goes on without an error; when the pass then returns
\* without error, it has handled every entry and the map it returns holds
\* none of the entries it deleted.
C3_EvictOnNotExist ==
  [][\A c \in Callers :
       /\ \A id \in Ids :
            (StepOn(c, id) /\ FirstFailure(Store[id], "absent")) =>
              /\ id \notin DOMAIN Store'
              /\ callers'[c].pc = "range"
              /\ callers'[c].ret = NoRet
              /\ callers'[c].todo = callers[c].todo \ {id}
              /\ \A j \in DOMAIN Store \ {id} :
                   j \in DOMAIN Store' /\ Store'[j] = Store[j]
       /\ (callers[c].pc = "range" /\ callers'[c].pc = "idle"
             /\ callers'[c].ret.err = NoErr) =>
              /\ callers'[c].ret.stats = statsHolder
              /\ callers[c].todo \cap DOMAIN Store = {}
              /\ callers[c].evicted \cap DOMAIN Store' = {}
    ]_vars

\* a pass has returned a map without error after it deleted an entry whose
\* directory still exists (one of its bound files is gone) and updated another
C3_Witness ==
  \E c \in Callers :
    /\ callers[c].pc = "idle"
    /\ callers[c].ret.stats # NoHolder
    /\ callers[c].ret.err = NoErr
    /\ callers[c].updated # {}
    /\ \E id \in callers[c].evicted :
         /\ id \in fsDirs
         /\ id \notin DOMAIN Store
         /\ \E f \in FileNameSet : fsFiles[id][f] = "ok"

\* C4: when the first failing read of an entry's bound files fails with an
\* error other than not-exist, ReadStats returns that error and no map and
\* releases the mutex; the iteration deletes no entry and leaves every other
\* entry as the pass had it (updates and deletions made earlier in the pass
\* are kept).
C4_ReadErrorAborts ==
  [][\A c \in Callers, id \in Ids :
       (StepOn(c, id) /\ FirstFailure(Store[id], "denied")) =>
         /\ callers'[c].pc = "idle"
         /\ callers'[c].ret = [called |-> TRUE, stats |-> NoHolder, err |-> EACCES]
         /\ holders'[statsHolder].mu = Free
         /\ DOMAIN Store' = DOMAIN Store
         /\ \A j \in DOMAIN Store \ {id} : Store'[j] = Store[j]
         /\ Paths(Store'[id]) = Paths(Store[id])
    ]_vars

\* ReadStats has returned a read error after the same pass updated another
\* entry, which still carries the counters of that pass
C4_Witness ==
  \E c \in Callers :
    /\ callers[c].ret.err = EACCES
    /\ callers[c].ret.stats = NoHolder
    /\ \E j \in callers[c].updated :
         /\ j \in DOMAIN Store
         /\ Store[j].Memory.Timestamp = now
         /\ Store[j].Memory.Cache # 0
         /\ lastPass[statsHolder][j] = Store[j]

\* C5: a call of ReadStats while statsHolder is nil returns the "not
\* initialized" error and no map, and changes nothing else: no holder, no
\* mutex, no goroutine, no pattern.
C5_UninitializedReadStats ==
  [][\A c \in Callers :
       (statsHolder = NoHolder /\ callers'[c] # callers[c]) =>
         /\ callers'[c].pc = "idle"
         /\ callers'[c].ret = [called |-> TRUE, stats |-> NoHolder,
                               err |-> NotInitialized]
         /\ UNCHANGED <<statsHolder, holders, lastPass, tasks, re, initRet, errCh>>
    ]_vars

\* a caller holds the "not initialized" error
C5_Witness ==
  \E c \in Callers :
    /\ statsHolder = NoHolder
    /\ callers[c].ret.called
    /\ callers[c].ret.err = NotInitialized
    /\ callers[c].ret.stats = NoHolder

\* C6: after Init has returned the error of an invalid pattern, there is no
\* holder and no goroutine, and every ReadStats call made since has returned
\* the "not initialized" error.
C6_InvalidPattern ==
  initRet = RegexpError =>
    /\ statsHolder = NoHolder
    /\ holders = <<>>
    /\ tasks = <<>>
    /\ \A c \in Callers :
         /\ callers[c].pc = "idle"
         /\ callers[c].ret.called => callers[c].ret.err = NotInitialized

\* Init has failed on the pattern and a ReadStats call has followed
C6_Witness ==
  /\ initRet = RegexpError
  /\ \E c \in Callers : callers[c].ret.called

\* C7: with an error channel, the pass in which updatePaths returns an error
\* takes the goroutine to the send, and from then on the goroutine only
\* sends, closes and is done: it keeps its error, starts no pass, and every
\* later change of the store or of the mutex is made by a ReadStats call.
C7_FailedPassStopsTask ==
  [][\A t \in DOMAIN tasks :
       /\ (tasks[t].errChan # NoChan /\ tasks[t].err = NoErr
             /\ tasks'[t].err # NoErr) => tasks'[t].pc = "send"
       /\ (tasks[t].errChan # NoChan /\ tasks[t].err # NoErr) =>
            /\ tasks[t].pc \in {"send", "close", "done"}
            /\ tasks'[t].pc \in {"send", "close", "done"}
            /\ tasks'[t].err = tasks[t].err
            /\ tasks'[t].h = NoHolder
            /\ (holders' # holders \/ lastPass' # lastPass) =>
                 (callers' # callers /\ tasks' = tasks)
    ]_vars

\* the goroutine has returned after a failed pass, BasePath can be walked
\* again, and a ReadStats call has gone through the store since
C7_Witness ==
  \E t \in DOMAIN tasks :
    /\ tasks[t].errChan # NoChan
    /\ tasks[t].err # NoErr
    /\ tasks[t].pc = "done"
    /\ fsRoot = "ok"
    /\ callers["u1"].ret.stats # NoHolder

\* C8 (as claimed): without an error channel, a goroutine whose pass has
\* failed is never again at the call of updatePaths nor inside a pass.
C8_NilChannelStops ==
  \A t \in DOMAIN tasks :
    (tasks[t].errChan = NoChan /\ tasks[t].err # NoErr) =>
      tasks[t].pc \notin {"call", "walk"}

\* what holds of the channel and of the goroutine in every state
C9_Channel ==
  /\ errCh.attempts <= 1
  /\ errCh.handed <= errCh.attempts
  /\ Len(errCh.buf) <= errCh.handed
  /\ errCh.got \subseteq {NoErr, WalkError}
  /\ errCh.closed <=> \E t \in DOMAIN tasks : tasks[t].pc = "done"
  /\ \A t \in DOMAIN tasks :
       /\ tasks[t].pc = "send" => (errCh.attempts = 0 /\ ENABLED TaskSend(t))
       /\ tasks[t].pc = "close" => (errCh.attempts = 1 /\ ENABLED TaskClose(t))
       /\ tasks[t].pc = "done" => errCh.attempts = 1

\* C9 (as claimed): the value is handed over only when a receiver is waiting
\* at the send.
C9_OnlyIfReceiverReady ==
  [][errCh'.handed > errCh.handed => errCh.recv = "waiting"]_vars

\* C9 (amended): over a run there is at most one send attempt; the value is
\* handed over if and only if, at the attempt, a receiver is waiting or the
\* channel has a free buffer slot, and is dropped otherwise; in both cases
\* the goroutine goes on to close the channel, and neither the send nor the
\* close ever waits.
C9_SendOnceThenClose ==
  /\ []C9_Channel
  /\ [][\A t \in DOMAIN tasks :
          /\ (tasks[t].pc = "send" /\ tasks'[t] # tasks[t]) =>
               /\ tasks'[t].pc = "close"
               /\ errCh'.attempts = errCh.attempts + 1
               /\ ~errCh'.closed
               /\ errCh'.handed = errCh.handed +
                    (IF errCh.recv = "waiting"
                          \/ Len(errCh.buf) < ChanCap(tasks[t].errChan)
                       THEN 1 ELSE 0)
               /\ (errCh.recv = "waiting") =>
                    (tasks[t].err \in errCh'.got /\ errCh'.recv = "idle")
          /\ (tasks[t].pc = "close" /\ tasks'[t] # tasks[t]) =>
               /\ tasks'[t].pc = "done"
               /\ errCh'.closed
               /\ errCh'.handed = errCh.handed
               /\ errCh'.buf = errCh.buf
       ]_vars

\* no receiver was waiting at the send, the value went into the buffer of
\* the channel, the channel was closed and the application received the
\* value afterwards
C9_Witness ==
  \E t \in DOMAIN tasks :
    /\ tasks[t].errChan = "buffered"
    /\ tasks[t].pc = "done"
    /\ errCh.closed
    /\ errCh.attempts = 1
    /\ errCh.handed = 1
    /\ errCh.buf = <<>>
    /\ errCh.got = {WalkError}

\* C10 (as claimed): a call of updatePaths under a BasePath that cannot be
\* walked ends the pass with an error, and with an error channel takes the
\* goroutine to the send.
C10_RootErrorReported ==
  [][\A t \in DOMAIN tasks :
       (tasks[t].pc = "call" /\ fsRoot # "ok" /\ tasks'[t] # tasks[t]) =>
         /\ tasks'[t].err # NoErr
         /\ tasks[t].errChan # NoChan => tasks'[t].pc = "send"
    ]_vars

\* the step is filepath.Walk handing walkFn an entry of an existing tree
\* that has vanished since its name was read: the next directory, or a file
\* of the directory being visited
EntryError(t) ==
  /\ tasks[t].pc = "walk"
  /\ fsRoot = "ok"
  /\ tasks'[t] # tasks[t]
  /\ \/ /\ tasks[t].files = <<>>
        /\ tasks[t].names # <<>>
        /\ ~DirExists(Head(tasks[t].names))
     \/ /\ tasks[t].files # <<>>
        /\ \E i \in 1..Len(tasks[t].files) :
             ~FileExists(<<tasks[t].dir, tasks[t].files[i]>>)

\* C11 (as claimed): an error on one entry during the walk does not end the
\* pass: the goroutine stays inside the walk with no error and goes on to
\* the entries that remain.
C11_EntryErrorAbsorbed ==
  [][\A t \in DOMAIN tasks :
       EntryError(t) =>
         /\ tasks'[t].pc = "walk"
         /\ tasks'[t].err = NoErr
         /\ tasks[t].files = <<>> => tasks'[t].names = Tail(tasks[t].names)
    ]_vars

\* the non-empty path fields of an entry
BoundPaths(cs) == {ReadOrder(cs)[k] : k \in 1..4} \ {NoPath}

\* the paths of the metric files that exist under a container directory
PresentFiles(id) ==
  {<<id, f>> : f \in {g \in FileNameSet : FileExists(<<id, g>>)}}

\* C12: while the tree has not changed, once the goroutine has completed a
\* pass the store holds an entry for exactly the container directories of
\* the tree, and the bound paths of each entry are exactly the metric files
\* present in its directory, one path field per file; and in any pass the
\* visit of a directory leaves an entry for it, and the visit of its files
\* binds every listed file that still exists.
C12_PassBindsAll ==
  /\ []((fsEvents = 0 /\ \E t \in DOMAIN tasks : tasks[t].pc = "sleep") =>
          /\ DOMAIN Store = fsDirs
          /\ \A id \in fsDirs :
               /\ BoundPaths(Store[id]) = PresentFiles(id)
               /\ Cardinality(PresentFiles(id)) = 4 =>
                    \A k \in 1..4 : ReadOrder(Store[id])[k] # NoPath)
  /\ [][\A t \in DOMAIN tasks :
          (tasks[t].pc = "walk" /\ tasks'[t] # tasks[t]) =>
            /\ (tasks[t].files = <<>> /\ tasks[t].names # <<>>
                  /\ DirExists(Head(tasks[t].names))) =>
                 Head(tasks[t].names) \in DOMAIN Store'
            /\ tasks[t].files # <<>> =>
                 /\ tasks[t].dir \in DOMAIN Store'
                 /\ \A i \in 1..Len(tasks[t].files) :
                      FileExists(<<tasks[t].dir, tasks[t].files[i]>>) =>
                        <<tasks[t].dir, tasks[t].files[i]>>
                          \in BoundPaths(Store'[tasks[t].dir])
       ]_vars

\* the first pass over a tree with one container directory holding the four
\* files has completed, and the store has one entry with four paths
C12_Witness ==
  /\ fsEvents = 0
  /\ fsDirs = {"c1"}
  /\ Cardinality(PresentFiles("c1")) = 4
  /\ \E t \in DOMAIN tasks : tasks[t].pc = "sleep"
  /\ DOMAIN Store = {"c1"}
  /\ Cardinality(BoundPaths(Store["c1"])) = 4
  /\ Store["c1"].Memory.Timestamp = ZeroTime

\* C13: walkFn adds a key to the map only when it is called without error
\* on a directory whose path matches, and then only the ID of that path; on
\* a file whose ID has no entry it leaves the map as it was; and it changes
\* an entry only when called on a file with the ID of that entry.
C13_FileNeverCreates ==
  (call.fn = "walkFn" /\ call.out # <<>>) =>
    LET m == call.in.m
        r == call.out[1].containers
        isFile == ~call.in.isDir
        matched == call.in.filePath # BasePath
    IN /\ DOMAIN m \subseteq DOMAIN r
       /\ \A id \in DOMAIN r \ DOMAIN m :
            /\ call.in.isDir /\ matched /\ call.in.err = NoErr
            /\ id = call.in.filePath[1]
            /\ r[id] = ZeroCstats
       /\ (isFile /\ matched /\ call.in.filePath[1] \notin DOMAIN m) => r = m
       /\ \A id \in DOMAIN m :
            r[id] # m[id] =>
              (isFile /\ matched /\ call.in.err = NoErr
                 /\ id = call.in.filePath[1])

\* walkFn has been called on the memory file of c2 with a map that holds c1
\* only, and has returned that map
C13_Witness ==
  /\ call.fn = "walkFn"
  /\ call.out # <<>>
  /\ ~call.in.isDir
  /\ call.in.err = NoErr
  /\ call.in.filePath = <<"c2", memFile>>
  /\ DOMAIN call.in.m = {"c1"}
  /\ call.out[1].containers = call.in.m

\* the value of a decimal numeral
DecRange == 0..200
IsDecimal(str) == \E n \in DecRange : ToString(n) = str
DecVal(str) == CHOOSE n \in DecRange : ToString(n) = str

\* lines 0 and 1 of the content have two fields or more, the second decimal
WellFormedStat(content) ==
  /\ Len(content) >= 2
  /\ \A i \in 1..2 : Len(content[i]) >= 2 /\ IsDecimal(content[i][2])

\* C14: on a content whose lines 0 and 1 have at least two fields with a
\* decimal second field, CPUStat.create leaves User at the second field of
\* line 0 and System at the second field of line 1, and MemStat.create
\* leaves Cache and RSS so, whatever the first fields are, whatever the
\* counters were before and whatever lines follow.
C14_StatByPosition ==
  (call.fn \in {"CPUStat.create", "MemStat.create"} /\ call.out # <<>>
     /\ WellFormedStat(call.in.content)) =>
    LET l0 == DecVal(call.in.content[1][2])
        l1 == DecVal(call.in.content[2][2])
        st == call.out[1]
    IN IF call.fn = "CPUStat.create"
         THEN st.User = l0 /\ st.System = l1
         ELSE st.Cache = l0 /\ st.RSS = l1

\* CPUStat.create has parsed a content whose labels are not user and system
\* and whose third line is a well-formed line too
C14_Witness ==
  /\ call.fn = "CPUStat.create"
  /\ call.out # <<>>
  /\ call.in.stat = OldCPU
  /\ call.in.content = << <<"nr", "7">>, <<"rss", "200", "kB">>, <<"user", "5">> >>
  /\ call.out[1].User = 7
  /\ call.out[1].System = 200

\* the major and minor numbers a device identifier shows
DevMajor(dev) == CASE dev = "8:0" -> 8 [] dev = "8:1" -> 8 [] OTHER -> 0
DevMinor(dev) == CASE dev = "8:0" -> 0 [] dev = "8:1" -> 1 [] OTHER -> 0

\* the labels of a block are Read, Write, Sync and Async, once each, with or
\* without rows of other labels
FourRows(ops) ==
  \A op \in {"Read", "Write", "Sync", "Async"} :
    Cardinality({k \in 1..Len(ops) : ops[k] = op}) = 1

\* the content is made of blocks of distinct devices with four rows each,
\* with or without the lines that follow the last block
WellFormedBlk(in) ==
  /\ in.lead = <<>>
  /\ \A g \in 1..Len(in.groups) : FourRows(in.groups[g].ops)
  /\ \A g, h \in 1..Len(in.groups) :
       g # h => in.groups[g].dev # in.groups[h].dev

\* the record of the g-th block
BlkRecord(groups, g) ==
  [Major |-> DevMajor(groups[g].dev), Minor |-> DevMinor(groups[g].dev),
   Read |-> DecVal(RowUnit(g, "Read")), Write |-> DecVal(RowUnit(g, "Write")),
   Sync |-> DecVal(RowUnit(g, "Sync")), Async |-> DecVal(RowUnit(g, "Async"))]

\* C15: on a content made of N blocks of distinct devices, each holding its
\* rows Read, Write, Sync and Async, BlkServiced.create leaves exactly N
\* device records, in the order of the blocks, each with the major and minor
\* numbers of its device and the four values of its rows, in whatever order
\* the rows come; a row with another label changes nothing.
C15_OneRecordPerDevice ==
  (call.fn = "BlkServiced.create" /\ call.out # <<>> /\ WellFormedBlk(call.in)) =>
    /\ Len(call.out[1].Devices) = Len(call.in.groups)
    /\ \A g \in 1..Len(call.in.groups) :
         call.out[1].Devices[g] = BlkRecord(call.in.groups, g)

\* a content of two devices has been parsed, the first with a Total row and
\* the second with its rows in reverse order, into two records
C15_Witness ==
  /\ call.fn = "BlkServiced.create"
  /\ call.out # <<>>
  /\ call.in.stat = OldBlk
  /\ call.in.lead = <<>>
  /\ Len(call.in.groups) = 2
  /\ call.in.groups[1] = [dev |-> "8:0",
                          ops |-> <<"Read", "Write", "Sync", "Async", "Total">>]
  /\ call.in.groups[2] = [dev |-> "8:1",
                          ops |-> <<"Async", "Sync", "Write", "Read">>]
  /\ Len(call.out[1].Devices) = 2
  /\ call.out[1].Devices[2].Minor = 1
  /\ call.out[1].Devices[2].Read = 5
  /\ call.out[1].Devices[2].Async = 8

\* the value the rows of the g-th block give to the counter of a label:
\* zero when the block has no row with that label
BlkCounter(groups, g, op) ==
  IF \E k \in 1..Len(groups[g].ops) : groups[g].ops[k] = op
    THEN DecVal(RowUnit(g, op)) ELSE 0

\* C16: in a content of blocks of distinct devices, the record of a device
\* whose identifier has no colon has Major and Minor 0 and the counters of
\* its rows, and the records of the other devices have their numbers and
\* counters, before and after it.
C16_NoColonDevice ==
  (call.fn = "BlkServiced.create" /\ call.out # <<>> /\ call.in.lead = <<>>
     /\ (\A g, h \in 1..Len(call.in.groups) :
           g # h => call.in.groups[g].dev # call.in.groups[h].dev)
     /\ \E g \in 1..Len(call.in.groups) : call.in.groups[g].dev = "sda") =>
    /\ Len(call.out[1].Devices) = Len(call.in.groups)
    /\ \A g \in 1..Len(call.in.groups) :
         LET d == call.out[1].Devices[g]
             dev == call.in.groups[g].dev
         IN /\ dev = "sda" => (d.Major = 0 /\ d.Minor = 0)
            /\ dev # "sda" => (d.Major = DevMajor(dev) /\ d.Minor = DevMinor(dev))
            /\ d.Read = BlkCounter(call.in.groups, g, "Read")
            /\ d.Write = BlkCounter(call.in.groups, g, "Write")
            /\ d.Sync = BlkCounter(call.in.groups, g, "Sync")
            /\ d.Async = BlkCounter(call.in.groups, g, "Async")

\* a content whose first device has no colon in its identifier and whose
\* second device has one has been parsed into two records
C16_Witness ==
  /\ call.fn = "BlkServiced.create"
  /\ call.out # <<>>
  /\ call.in.lead = <<>>
  /\ Len(call.in.groups) = 2
  /\ call.in.groups[1].dev = "sda"
  /\ call.in.groups[2].dev = "8:1"
  /\ Len(call.out[1].Devices) = 2
  /\ call.out[1].Devices[1].Major = 0
  /\ call.out[1].Devices[1].Minor = 0
  /\ call.out[1].Devices[1].Read = 1
  /\ call.out[1].Devices[2].Major = 8
  /\ call.out[1].Devices[2].Minor = 1

\* the number in field k of line i of the file at path, as it is now
FileNum(path, i, k) == DecVal(Content(path[1], path[2], now)[i][k])

\* the record of the one device of a block-I/O file
FileDevice(path) ==
  [Major |-> 8, Minor |-> 0, Read |-> FileNum(path, 1, 3),
   Write |-> FileNum(path, 2, 3), Sync |-> FileNum(path, 3, 3),
   Async |-> FileNum(path, 4, 3)]

\* the counters of the entry are those in the files its paths are bound to,
\* and none of them is zero
MatchesFiles(cs) ==
  /\ cs.Memory.path # NoPath =>
       /\ cs.Memory.Cache = FileNum(cs.Memory.path, 1, 2)
       /\ cs.Memory.RSS = FileNum(cs.Memory.path, 2, 2)
       /\ cs.Memory.Cache # 0 /\ cs.Memory.RSS # 0
  /\ cs.CPU.path # NoPath =>
       /\ cs.CPU.User = FileNum(cs.CPU.path, 1, 2)
       /\ cs.CPU.System = FileNum(cs.CPU.path, 2, 2)
       /\ cs.CPU.User # 0 /\ cs.CPU.System # 0
  /\ \A b \in {cs.BlkIO.Bytes, cs.BlkIO.IOPS} :
       b.path # NoPath =>
         /\ b.Devices = <<FileDevice(b.path)>>
         /\ \A i \in 1..Len(b.Devices) :
              /\ b.Devices[i].Read # 0 /\ b.Devices[i].Write # 0
              /\ b.Devices[i].Sync # 0 /\ b.Devices[i].Async # 0

\* C17: while the files have not changed, a ReadStats call made after Init
\* has returned no error and the current map with nothing deleted, and
\* every entry it has read carries the counters that are in the files its
\* paths are bound to, all of them non-zero.
C17_CountersEqualFiles ==
  \A c \in Callers :
    (fsEvents = 0 /\ callers[c].pc = "idle" /\ callers[c].ret.called
       /\ callers[c].ret.err # NotInitialized) =>
      /\ callers[c].ret.err = NoErr
      /\ callers[c].ret.stats = statsHolder
      /\ callers[c].evicted = {}
      /\ callers[c].updated \subseteq DOMAIN Store
      /\ \A id \in callers[c].updated : MatchesFiles(Store[id])

\* after a pass over a tree with one container holding the four files, a
\* ReadStats call has returned its entry, read from the four files
C17_Witness ==
  \E c \in Callers :
    /\ fsEvents = 0
    /\ fsDirs = {"c1"}
    /\ callers[c].pc = "idle"
    /\ callers[c].ret.err = NoErr
    /\ callers[c].ret.stats = statsHolder
    /\ callers[c].updated = {"c1"}
    /\ Cardinality(BoundPaths(Store["c1"])) = 4
    /\ Store["c1"].Memory.Timestamp = now
    /\ Store["c1"].CPU.User = FileNum(<<"c1", cPUFile>>, 1, 2)
    /\ Len(Store["c1"].BlkIO.Bytes.Devices) = 1
    /\ Len(Store["c1"].BlkIO.IOPS.Devices) = 1

\* a goroutine with an error channel has had a pass fail
Failed ==
  \E t \in DOMAIN tasks : tasks[t].errChan # NoChan /\ tasks[t].err # NoErr

\* C18: once a goroutine with an error channel has had a pass fail, the
\* mutex is free whenever no ReadStats call is in progress, so that a call
\* can start; each iteration of a call still deletes an entry whose first
\* failing file does not exist and otherwise re-reads the entry from its
\* files; a call that ends without error returns the map; and no step adds
\* a key to the store.
C18_ReadStatsAfterFailed ==
  /\ []((Failed /\ \A c \in Callers : callers[c].pc = "idle") =>
          (holders[statsHolder].mu = Free /\ ENABLED ReadStats("u1")))
  /\ [][Failed =>
          /\ DOMAIN Store' \subseteq DOMAIN Store
          /\ \A c \in Callers :
               /\ \A id \in Ids :
                    /\ (StepOn(c, id) /\ FirstFailure(Store[id], "absent")) =>
                         (id \notin DOMAIN Store' /\ callers'[c].pc = "range")
                    /\ (StepOn(c, id)
                          /\ \A k \in 1..4 :
                               ReadOrder(Store[id])[k] # NoPath =>
                                 FileStatus(ReadOrder(Store[id])[k]) = "ok") =>
                         /\ id \in DOMAIN Store'
                         /\ MatchesFiles(Store'[id])
                         /\ callers'[c].pc = "range"
               /\ (callers[c].pc = "range" /\ callers'[c].pc = "idle") =>
                    (callers'[c].ret.err = NoErr
                       /\ callers'[c].ret.stats = statsHolder)
       ]_vars

\* the goroutine has returned after a failed pass, and a ReadStats call made
\* since has re-read one entry, deleted another whose files are gone, and
\* returned the map
C18_Witness ==
  /\ \E t \in DOMAIN tasks :
       tasks[t].errChan # NoChan /\ tasks[t].err # NoErr /\ tasks[t].pc = "done"
  /\ callers["u1"].pc = "idle"
  /\ callers["u1"].ret.err = NoErr
  /\ callers["u1"].ret.stats = statsHolder
  /\ callers["u1"].updated # {}
  /\ callers["u1"].evicted # {}
  /\ \A id \in callers["u1"].updated :
       id \in DOMAIN Store /\ Store[id].Memory.Cache # 0
  /\ callers["u1"].evicted \cap DOMAIN Store = {}

\* C19 (as claimed): when a ReadStats call comes to the entry of a container
\* whose directory and files are gone, it deletes the entry, so that the
\* map it returns does not hold it.
C19_RemovedIsPruned ==
  [][\A c \in Callers, id \in Ids :
       (StepOn(c, id) /\ ~DirExists(id)) => id \notin DOMAIN Store'
    ]_vars

\* C20 (as claimed): the path bound to BlkIO.Bytes is that of a
\* blkio.throttle.io_service_bytes file and the path bound to BlkIO.IOPS
\* is that of a blkio.throttle.io_serviced file.
C20_BlkIOFamilies ==
  statsHolder # NoHolder =>
    \A id \in DOMAIN Store :
      /\ Store[id].BlkIO.Bytes.path # NoPath =>
           Store[id].BlkIO.Bytes.path = <<id, blkIOBytesFile>>
      /\ Store[id].BlkIO.IOPS.path # NoPath =>
           Store[id].BlkIO.IOPS.path = <<id, blkIOIOPSFile>>

\* the number of maximal runs of consecutive rows with the same device
\* identifier in the blocks
Runs(groups) ==
  Cardinality({g \in 1..Len(groups) :
                 g = 1 \/ groups[g].dev # groups[g - 1].dev})

\* C21 (as claimed): for every content, with or without a line before the
\* first row that is not a row, BlkServiced.create leaves as many device
\* records as the rows have runs of one device identifier, and none of them
\* is the record of no row.
C21_NoEmptyRecord ==
  (call.fn = "BlkServiced.create" /\ call.out # <<>>) =>
    /\ Len(call.out[1].Devices) = Runs(call.in.groups)
    /\ \A i \in 1..Len(call.out[1].Devices) :
         call.out[1].Devices[i] # ZeroBlkDevice

Keys == IF statsHolder = NoHolder THEN {} ELSE DOMAIN Store

\* the counters and timestamps of an entry: the entry without its bindings
Counters(cs) ==
  [cs EXCEPT !.Memory.path = NoPath, !.CPU.path = NoPath,
             !.BlkIO.Bytes.path = NoPath, !.BlkIO.IOPS.path = NoPath]

\* the step is a step of a discovery pass of the goroutine
DiscoveryStep ==
  \E t \in DOMAIN tasks : tasks[t].pc = "walk" /\ tasks'[t] # tasks[t]

\* the step is a step of a snapshot pass of a caller
SnapshotStep ==
  \E c \in Callers : callers[c].pc = "range" /\ callers'[c] # callers[c]

\* C23: a key enters the store only in a step of a discovery pass, which
\* removes no key and leaves the counters of every entry as they were; a key
\* leaves the store only in the iteration of a snapshot pass on that entry,
\* when the first failing read of its bound files is a not-exist one, and a
\* snapshot pass adds no key.
C23_KeySetFrame ==
  [][/\ (Keys' \ Keys # {}) => DiscoveryStep
     /\ DiscoveryStep =>
          /\ Keys \subseteq Keys'
          /\ \A id \in Keys : Counters(Store'[id]) = Counters(Store[id])
     /\ (Keys \ Keys' # {}) => SnapshotStep
     /\ SnapshotStep =>
          /\ Keys' \subseteq Keys
          /\ \A id \in Keys \ Keys' :
               \E c \in Callers :
                 StepOn(c, id) /\ FirstFailure(Store[id], "absent")
    ]_vars

\* a snapshot pass filled the counters of one entry and evicted another, and
\* a later discovery pass has put the evicted key back
C23_Witness ==
  /\ statsHolder # NoHolder
  /\ \E c \in Callers :
       /\ callers[c].pc = "idle"
       /\ \E id \in callers[c].evicted : id \in DOMAIN Store
       /\ \E j \in callers[c].updated :
            j \in DOMAIN Store /\ Store[j].Memory.RSS # 0

\* the step is a step of updatePaths in goroutine t
TaskStep(t) == tasks[t].pc \in {"call", "walk"} /\ tasks'[t] # tasks[t]

\* the map holds what a discovery pass over the tree as it is leaves: an
\* entry for every container directory, with every present metric file bound
Discovered(m) ==
  \A id \in Ids :
    DirExists(id) =>
      id \in DOMAIN m /\ PresentFiles(id) \subseteq BoundPaths(m[id])

\* C24: the visit of a container directory whose ID has an entry leaves that
\* entry, counters and bindings, as it was; a step of a discovery pass on a
\* store that already holds what a pass over the tree leaves changes
\* nothing; and a pass that started on such a store over a tree that never
\* changed ends with the store as it found it.
C24_DiscoveryIdempotent ==
  [][\A t \in DOMAIN tasks :
       /\ (TaskStep(t) /\ tasks[t].pc = "walk" /\ tasks[t].files = <<>>
             /\ tasks[t].names # <<>>
             /\ Head(tasks[t].names) \in DOMAIN Store) =>
            /\ Head(tasks[t].names) \in DOMAIN Store'
            /\ Store'[Head(tasks[t].names)] = Store[Head(tasks[t].names)]
       /\ (TaskStep(t) /\ Discovered(Store)) => Store' = Store
       /\ (TaskStep(t) /\ tasks'[t].pc \notin {"call", "walk"}
             /\ fsEvents = 0 /\ Discovered(lastPass[statsHolder])) =>
            Store' = lastPass[statsHolder]
    ]_vars

\* over a tree that never changed, a discovery pass that came after a
\* snapshot pass has visited both container directories and their files,
\* and the entries still hold their four bindings and the counters read
C24_Witness ==
  /\ fsEvents = 0
  /\ fsDirs = Ids
  /\ statsHolder # NoHolder
  /\ \E t \in DOMAIN tasks :
       tasks[t].pc = "walk" /\ tasks[t].names = <<>> /\ tasks[t].files = <<>>
  /\ DOMAIN Store = Ids
  /\ \A id \in Ids :
       /\ Cardinality(BoundPaths(Store[id])) = 4
       /\ Store[id].Memory.RSS # 0
       /\ Store[id].CPU.User # 0

\* the package is initialized and no discovery pass has failed
Running ==
  /\ statsHolder # NoHolder
  /\ \A t \in DOMAIN tasks : tasks[t].err = NoErr

\* the container directory is a key of the store with its files bound
Bound(id) ==
  /\ statsHolder # NoHolder
  /\ id \in DOMAIN Store
  /\ PresentFiles(id) \subseteq BoundPaths(Store[id])

\* every snapshot pass finishes
SnapshotsFinish == \A c \in Callers : []<>(callers[c].pc # "range")

\* C25: under fair scheduling of the goroutine and with every snapshot pass
\* finishing, from any point from which the package stays initialized with
\* no failed pass and a container directory stays in the tree, the
\* directory eventually is a key of the store with the metric files it
\* holds bound.
C25_EventuallyDiscovered ==
  SnapshotsFinish =>
    \A id \in Ids : []([](Running /\ DirExists(id)) => <>Bound(id))

\* both container directories are keys with their four files bound, one of
\* them started after the tree was first looked at
C25_Witness ==
  /\ fsEvents = 1 /\ now = 1
  /\ fsDirs = Ids
  /\ \A id \in Ids : Cardinality(PresentFiles(id)) = 4 /\ Bound(id)
  /\ Running

\* C26: a pass that ends, by any way out, leaves the mutex unlocked: the
\* step in which ReadStats returns (the map or a read error) and the step in
\* which updatePaths returns (nil or a walk error) free the mutex; whenever
\* no pass is inside the mutex is free, so a pass that calls Lock() can go on.
C26_LockReleased ==
  /\ []((statsHolder # NoHolder /\ InsidePass = {}) =>
          /\ holders[statsHolder].mu = Free
          /\ \A c \in Callers : callers[c].pc = "idle" => ENABLED ReadStats(c)
          /\ \A t \in DOMAIN tasks :
               tasks[t].pc = "call" => ENABLED updatePaths(t))
  /\ [][/\ \A c \in Callers :
            (callers[c].pc = "range" /\ callers'[c].pc = "idle") =>
              holders'[statsHolder].mu = Free
        /\ \A t \in DOMAIN tasks :
            (TaskStep(t) /\ tasks'[t].pc \notin {"call", "walk"}) =>
              holders'[statsHolder].mu = Free
       ]_vars

\* ReadStats has returned a read error to its caller, and after it the
\* goroutine has locked the mutex for a discovery pass
C26_Witness ==
  /\ callers["u1"].pc = "idle"
  /\ callers["u1"].ret.called
  /\ callers["u1"].ret.err = EACCES
  /\ \E t \in DOMAIN tasks :
       tasks[t].pc = "walk" /\ holders[statsHolder].mu = TaskNames[t]

BeforeFirstPass ==
  /\ statsHolder # NoHolder
  /\ \A t \in DOMAIN tasks : tasks[t].first /\ tasks[t].pc = "call"
FirstPassPending ==
  /\ statsHolder # NoHolder
  /\ \A t \in DOMAIN tasks : tasks[t].first

RunningTasks == {t \in DOMAIN tasks : tasks[t].pc # "done"}

\* C29 (as claimed): at most one goroutine of Init is running at any time,
\* and a call of Init that succeeds while one is running leaves every key
\* of the store in the store.
C29_OneTask ==
  /\ [](Cardinality(RunningTasks) <= 1)
  /\ [][(statsHolder # NoHolder /\ statsHolder' # statsHolder
           /\ RunningTasks # {}) =>
          DOMAIN Store \subseteq DOMAIN Store'
       ]_vars

\* C30: an entry a snapshot pass has deleted is not in the store for the
\* rest of that pass; the visit of an existing directory whose ID has no
\* entry creates the zero entry; the visit of the files of a directory whose
\* entry is the zero entry leaves its counters zero and binds exactly the
\* listed files that exist.  Hence what the next discovery pass makes of an
\* evicted ID is what it makes of a directory it has never seen.
C30_EvictionForgets ==
  /\ [](statsHolder # NoHolder =>
          \A c \in Callers : \A id \in callers[c].evicted :
            callers[c].pc = "range" => id \notin DOMAIN Store)
  /\ [][\A t \in DOMAIN tasks :
          (tasks[t].pc = "walk" /\ tasks'[t] # tasks[t]) =>
            /\ (tasks[t].files = <<>> /\ tasks[t].names # <<>>
                  /\ DirExists(Head(tasks[t].names))
                  /\ Head(tasks[t].names) \notin DOMAIN Store) =>
                 /\ Head(tasks[t].names) \in DOMAIN Store'
                 /\ Store'[Head(tasks[t].names)] = ZeroCstats
            /\ (tasks[t].files # <<>> /\ tasks[t].dir \in DOMAIN Store
                  /\ Store[tasks[t].dir] = ZeroCstats) =>
                 /\ Counters(Store'[tasks[t].dir]) = ZeroCstats
                 /\ BoundPaths(Store'[tasks[t].dir]) =
                      {<<tasks[t].dir, tasks[t].files[i]>> :
                         i \in {j \in 1..Len(tasks[t].files) :
                                  FileExists(<<tasks[t].dir, tasks[t].files[j]>>)}}
       ]_vars

\* a container whose entry a snapshot pass deleted, because one of its files
\* is gone, is a key again after the next discovery pass: all counters
\* zero, the three files that are left bound
C30_Witness ==
  /\ statsHolder # NoHolder
  /\ \E c \in Callers, id \in Ids :
       /\ callers[c].pc = "idle"
       /\ id \in callers[c].evicted
       /\ DirExists(id)
       /\ \E t \in DOMAIN tasks : tasks[t].pc = "sleep"
       /\ id \in DOMAIN Store
       /\ Counters(Store[id]) = ZeroCstats
       /\ Cardinality(PresentFiles(id)) = 3
       /\ BoundPaths(Store[id]) = PresentFiles(id)

\* C31: the Devices that BlkServiced.create leaves are those it leaves when
\* it starts from the zero record, whatever the record held before; a second
\* create over the same content leaves the same list; no record of the call
\* before is in the list; and a content with no row and no other line than
\* a blank one leaves the empty list.
C31_DevicesReplaced ==
  (call.fn = "BlkServiced.create" /\ call.out # <<>>) =>
    LET out == call.out[1]
    IN /\ out.Devices =
            BlkServiced_create(ZeroBlkServiced, call.in.content, now).Devices
       /\ BlkServiced_create(out, call.in.content, now).Devices = out.Devices
       /\ Len(out.Devices) <= Len(call.in.content)
       /\ \A i \in 1..Len(out.Devices) :
            \A j \in 1..Len(OldBlk.Devices) :
              out.Devices[i] # OldBlk.Devices[j]
       /\ (call.in.groups = <<>> /\ call.in.trail = <<>>) => out.Devices = <<>>

\* a record that held the device of an earlier call has gone through create
\* with the rows of one other device and holds that device only
C31_Witness ==
  /\ call.fn = "BlkServiced.create"
  /\ call.out # <<>>
  /\ call.in.stat = OldBlk
  /\ call.in.lead = <<>>
  /\ call.in.groups = <<[dev |-> "8:1",
                         ops |-> <<"Read", "Write", "Sync", "Async">>]>>
  /\ Len(call.out[1].Devices) = 1
  /\ call.out[1].Devices[1].Major = 8
  /\ call.out[1].Devices[1].Minor = 1
  /\ call.out[1].Devices[1].Read = 1

\* C32 (as claimed): in the variant that reads through readFile(path, id),
\* the iteration of ReadStats on an entry whose first failing read is a
\* not-exist one leaves the store without the entry and goes on with the
\* loop, and no call of ReadStats ends in a panic.
C32_CleanEviction ==
  /\ [](\A c \in Callers : callers[c].pc # "panic")
  /\ [][\A c \in Callers, id \in Ids :
          (StepOn(c, id) /\ FirstFailure(Store[id], "absent")) =>
            /\ id \notin DOMAIN Store'
            /\ callers'[c].pc = "range"
       ]_vars

====
